---- MODULE Spec2Model ----
(***************************************************************************)
(* Model of sqlite-virtual-url: the type inference accumulator             *)
(* (dtypes/inference.rs), the delimited-text and Avro readers (io/), and    *)
(* the virtual table with its cursors and predicate pushdown (lib.rs).     *)
(*                                                                         *)
(* Text is modelled as a sequence of one-character strings, so that        *)
(* trimming, parsing, formatting and splitting are computed and not        *)
(* assumed.                                                                *)
(***************************************************************************)
EXTENDS Integers, Sequences, FiniteSets

VARIABLES
    acc,            \* InferredType accumulator (inference.rs:4-10)
    seen,           \* samples passed to update so far, in call order
    idx,            \* IndexInfo as left by the last best_index call
    df,             \* UrlTable.df, the base table
    headers,        \* UrlTable.headers
    columns_types,  \* UrlTable.columns_types
    cursors,        \* the open UrlCursor objects of the table
    calls,          \* per cursor: the arguments of its last filter call
    ret,            \* value last handed to the host by column / rowid
    payload,        \* bytes handed to a reader constructor, as parsed records
    budget,         \* max_infer_rows handed to a reader constructor
    reader,         \* the constructed reader (or the error of try_new)
    iters,          \* the row iterators created by iter_rows
    yielded,        \* per iterator: the items it has returned so far
    vtab,           \* row-vector UrlTable: headers and rows of text cells
    vcursor,        \* row-vector UrlCursor: row_idx and filtered_rows
    vcall,          \* the arguments of the row-vector cursor's last filter call
    db,             \* the host database: the persisted metadata and data tables
    gate,           \* the last create / connect call and what init returned
    fetches,        \* number of times init has fetched the remote payload
    vt_args,        \* an argument list handed to parse_args
    parsed_args,    \* the ParsedArgs it returned
    lookup,         \* the last get_format / get_storage call and its result
    avro_out,       \* what avro::AvroReader::finish made of the payload
    inserts,        \* a frame, a batch size and the statements generated for them
    header_trip,    \* column names, their stored header line and its split
    stmts           \* the prepared statements built so far, each with its handle

inferVars  == <<acc, seen>>
planVars   == <<idx>>
tableVars  == <<df, headers, columns_types>>
cursorVars == <<cursors, calls, ret>>
readerVars == <<payload, budget, reader, iters, yielded>>
vectorVars == <<vtab, vcursor, vcall>>
gateVars   == <<db, gate, fetches>>
argsVars   == <<vt_args, parsed_args, lookup>>
lateVars   == <<avro_out, inserts, header_trip, stmts>>
extVars    == <<vectorVars, gateVars, argsVars, lateVars>>
vars == <<acc, seen, idx, df, headers, columns_types, cursors, calls, ret,
          payload, budget, reader, iters, yielded,
          vtab, vcursor, vcall, db, gate, fetches, vt_args, parsed_args, lookup,
          avro_out, inserts, header_trip, stmts>>

----------------------------------------------------------------------------
(* Bounds *)

MaxUpdates == 4
MaxLen == 3
MaxConstraints == 2
MaxCursors == 2
MaxExtraNext == 1
MaxRows == 2
MaxIters == 2
MaxBudget == 3
MaxArgs == 2
\* calls of create / connect in one run
MaxInits == 2
\* rows of a frame handed to generate_inserts_from_dataframe, and its batch size
MaxTableRows == 5
MaxBatch == 4
\* column names in a header line
MaxNames == 2
\* prepared statements built in one run
MaxStatements == 3

----------------------------------------------------------------------------
(* Text helpers: str::trim, eq_ignore_ascii_case, str::parse::<i64>,       *)
(* str::parse::<f64>, str::parse::<usize>, Display for integers, split.    *)

Digits == <<"0", "1", "2", "3", "4", "5", "6", "7", "8", "9">>
UpperChars == <<"A", "B", "C", "D", "E", "F", "G", "H", "I", "J", "K", "L", "M",
                "N", "O", "P", "Q", "R", "S", "T", "U", "V", "W", "X", "Y", "Z">>
LowerChars == <<"a", "b", "c", "d", "e", "f", "g", "h", "i", "j", "k", "l", "m",
                "n", "o", "p", "q", "r", "s", "t", "u", "v", "w", "x", "y", "z">>

IsDigit(c) == \E i \in 1..10 : Digits[i] = c
DigitVal(c) == (CHOOSE i \in 1..10 : Digits[i] = c) - 1
IsSpace(c) == c \in {" ", "\t", "\n", "\r"}
ToLowerChar(c) ==
    IF \E i \in 1..26 : UpperChars[i] = c
    THEN LowerChars[CHOOSE i \in 1..26 : UpperChars[i] = c]
    ELSE c
ToLower(s) == [i \in 1..Len(s) |-> ToLowerChar(s[i])]
AllDigits(s) == \A i \in 1..Len(s) : IsDigit(s[i])

RECURSIVE TrimStart(_)
TrimStart(s) ==
    IF s # <<>> /\ IsSpace(Head(s)) THEN TrimStart(Tail(s)) ELSE s

RECURSIVE TrimEnd(_)
TrimEnd(s) ==
    IF s # <<>> /\ IsSpace(s[Len(s)]) THEN TrimEnd(SubSeq(s, 1, Len(s) - 1)) ELSE s

Trim(s) == TrimEnd(TrimStart(s))

EqIgnoreAsciiCase(s, t) == ToLower(s) = ToLower(t)

RECURSIVE StripZeros(_)
StripZeros(s) ==
    IF s # <<>> /\ Head(s) = "0" THEN StripZeros(Tail(s)) ELSE s

\* s <= t for digit strings of the same length
RECURSIVE DigitsLeq(_, _)
DigitsLeq(s, t) ==
    IF s = <<>> THEN TRUE
    ELSE IF DigitVal(Head(s)) < DigitVal(Head(t)) THEN TRUE
    ELSE IF DigitVal(Head(s)) > DigitVal(Head(t)) THEN FALSE
    ELSE DigitsLeq(Tail(s), Tail(t))

I64MaxDigits == <<"9","2","2","3","3","7","2","0","3","6","8","5","4","7","7","5","8","0","7">>
I64MinDigits == <<"9","2","2","3","3","7","2","0","3","6","8","5","4","7","7","5","8","0","8">>

HasSign(s) == s # <<>> /\ Head(s) \in {"+", "-"}
Unsigned(s) == IF HasSign(s) THEN Tail(s) ELSE s

\* str::parse::<i64>().is_ok(): optional sign, one or more digits, value in range
ParseI64Ok(s) ==
    LET body == Unsigned(s)
        mag  == StripZeros(body)
        lim  == IF HasSign(s) /\ Head(s) = "-" THEN I64MinDigits ELSE I64MaxDigits
    IN  /\ body # <<>>
        /\ AllDigits(body)
        /\ \/ Len(mag) < Len(lim)
           \/ Len(mag) = Len(lim) /\ DigitsLeq(mag, lim)

FirstIndex(s, cs) ==
    IF \E i \in 1..Len(s) : s[i] \in cs
    THEN CHOOSE i \in 1..Len(s) : s[i] \in cs /\ \A j \in 1..(i - 1) : s[j] \notin cs
    ELSE 0

\* mantissa of a decimal float: Digit+ | Digit+ '.' Digit* | Digit* '.' Digit+
MantissaOk(m) ==
    LET dot == FirstIndex(m, {"."})
        ip  == IF dot = 0 THEN m ELSE SubSeq(m, 1, dot - 1)
        fp  == IF dot = 0 THEN <<>> ELSE SubSeq(m, dot + 1, Len(m))
    IN  /\ AllDigits(ip)
        /\ AllDigits(fp)
        /\ Len(ip) + Len(fp) >= 1

\* exponent after the 'e': Sign? Digit+
ExponentOk(e) == Unsigned(e) # <<>> /\ AllDigits(Unsigned(e))

\* str::parse::<f64>().is_ok(): Sign? ( inf | infinity | nan | Number Exp? )
ParseF64Ok(s) ==
    LET body == Unsigned(s)
        low  == ToLower(body)
        epos == FirstIndex(low, {"e"})
    IN  \/ low \in { <<"i","n","f">>, <<"n","a","n">>,
                     <<"i","n","f","i","n","i","t","y">> }
        \/ /\ epos = 0
           /\ MantissaOk(body)
        \/ /\ epos > 0
           /\ MantissaOk(SubSeq(body, 1, epos - 1))
           /\ ExponentOk(SubSeq(body, epos + 1, Len(body)))

RECURSIVE DigitsValue(_)
DigitsValue(s) ==
    IF s = <<>> THEN 0 ELSE DigitsValue(SubSeq(s, 1, Len(s) - 1)) * 10 + DigitVal(s[Len(s)])

\* str::parse::<usize>(): optional '+', one or more digits
ParseUsizeOk(s) ==
    LET body == IF s # <<>> /\ Head(s) = "+" THEN Tail(s) ELSE s
    IN  body # <<>> /\ AllDigits(body) /\ Len(StripZeros(body)) <= 9
ParseUsize(s) ==
    DigitsValue(IF s # <<>> /\ Head(s) = "+" THEN Tail(s) ELSE s)

\* Display of an integer: decimal digits, '-' in front of a negative one
RECURSIVE FormatNat(_)
FormatNat(n) ==
    IF n < 10 THEN <<Digits[n + 1]>> ELSE FormatNat(n \div 10) \o <<Digits[(n % 10) + 1]>>
FormatInt(n) == IF n < 0 THEN <<"-">> \o FormatNat(0 - n) ELSE FormatNat(n)

Zeros(n) == [i \in 1..n |-> "0"]

RECURSIVE StripTrailingZeros(_)
StripTrailingZeros(s) ==
    IF s # <<>> /\ s[Len(s)] = "0" THEN StripTrailingZeros(SubSeq(s, 1, Len(s) - 1)) ELSE s

\* the exponent of a float text as an integer; 0 when there is none
ExponentValue(e) ==
    IF e = <<>> THEN 0
    ELSE IF Head(e) = "-" THEN 0 - DigitsValue(Tail(e))
    ELSE DigitsValue(Unsigned(e))

\* Display of the f64 that str::parse::<f64>() gives for s: "inf", "-inf",
\* "NaN", or the decimal expansion with no exponent, no leading zeros, no
\* trailing fraction zeros and no '.' for an integral value ("-0" for -0.0).
\* Exact for texts of at most 15 significant digits, where the nearest f64
\* prints back as the same decimal.
FormatF64(s) ==
    LET neg  == HasSign(s) /\ Head(s) = "-"
        body == Unsigned(s)
        low  == ToLower(body)
        epos == FirstIndex(low, {"e"})
        m    == IF epos = 0 THEN body ELSE SubSeq(body, 1, epos - 1)
        e    == IF epos = 0 THEN <<>> ELSE SubSeq(body, epos + 1, Len(body))
        dot  == FirstIndex(m, {"."})
        ip   == IF dot = 0 THEN m ELSE SubSeq(m, 1, dot - 1)
        fp   == IF dot = 0 THEN <<>> ELSE SubSeq(m, dot + 1, Len(m))
        d    == ip \o fp
        p    == Len(ip) + ExponentValue(e)
        int  == IF p <= 0 THEN <<>>
                ELSE IF p >= Len(d) THEN d \o Zeros(p - Len(d))
                ELSE SubSeq(d, 1, p)
        frac == IF p <= 0 THEN Zeros(0 - p) \o d
                ELSE IF p >= Len(d) THEN <<>>
                ELSE SubSeq(d, p + 1, Len(d))
        i2   == IF StripZeros(int) = <<>> THEN <<"0">> ELSE StripZeros(int)
        f2   == StripTrailingZeros(frac)
        sign == IF neg THEN <<"-">> ELSE <<>>
    IN  IF low = <<"n","a","n">> THEN <<"N","a","N">>
        ELSE IF low \in { <<"i","n","f">>, <<"i","n","f","i","n","i","t","y">> }
             THEN sign \o <<"i","n","f">>
        ELSE sign \o i2 \o (IF f2 = <<>> THEN <<>> ELSE <<".">> \o f2)

\* str::split(sep): the pieces between separators; the empty text gives one empty piece
RECURSIVE Split(_, _)
Split(s, sep) ==
    LET p == FirstIndex(s, {sep})
    IN  IF p = 0 THEN <<s>>
        ELSE <<SubSeq(s, 1, p - 1)>> \o Split(SubSeq(s, p + 1, Len(s)), sep)

\* Vec<String>::join(sep)
RECURSIVE Join(_, _)
Join(parts, sep) ==
    IF parts = <<>> THEN <<>>
    ELSE IF Len(parts) = 1 THEN parts[1]
    ELSE parts[1] \o <<sep>> \o Join(Tail(parts), sep)

----------------------------------------------------------------------------
(* Type inference: dtypes/inference.rs *)

InferredType == {"Null", "Bool", "Int", "Float", "String"}

\* promote with the wider of the two types not always winning: Int tested before Float
promote_int_first(current, new) ==
    IF current = "String" \/ new = "String" THEN "String"
    ELSE IF current = "Int" \/ new = "Int" THEN "Int"
    ELSE IF current = "Float" \/ new = "Float" THEN "Float"
    ELSE IF current = "Bool" \/ new = "Bool" THEN "Bool"
    ELSE new

\* promote on two separate chains: a Bool meeting a number gives String
promote_two_chains(current, new) ==
    IF current = "String" \/ new = "String" THEN "String"
    ELSE IF current = "Bool" /\ new \in {"Int", "Float"} THEN "String"
    ELSE IF new = "Bool" /\ current \in {"Int", "Float"} THEN "String"
    ELSE IF current = "Float" \/ new = "Float" THEN "Float"
    ELSE IF current = "Int" \/ new = "Int" THEN "Int"
    ELSE IF current = "Bool" \/ new = "Bool" THEN "Bool"
    ELSE new

\* match arms of promote, first match wins
promote(current, new) ==
    IF current = "String" \/ new = "String" THEN "String"
    ELSE IF current = "Float" \/ new = "Float" THEN "Float"
    ELSE IF current = "Int" \/ new = "Int" THEN "Int"
    ELSE IF current = "Bool" \/ new = "Bool" THEN "Bool"
    ELSE new

\* the chain of update with the float test ahead of the integer test
classify_float_first(val) ==
    IF EqIgnoreAsciiCase(val, <<"t","r","u","e">>)
         \/ EqIgnoreAsciiCase(val, <<"f","a","l","s","e">>) THEN "Bool"
    ELSE IF ParseF64Ok(val) THEN "Float"
    ELSE IF ParseI64Ok(val) THEN "Int"
    ELSE "String"

\* the if / else-if chain of update that picks new_type for a trimmed sample
classify(val) ==
    IF EqIgnoreAsciiCase(val, <<"t","r","u","e">>)
         \/ EqIgnoreAsciiCase(val, <<"f","a","l","s","e">>) THEN "Bool"
    ELSE IF ParseI64Ok(val) THEN "Int"
    ELSE IF ParseF64Ok(val) THEN "Float"
    ELSE "String"

\* InferredType::update
update(self, value) ==
    LET val == Trim(value)
    IN  IF val = <<>> THEN self ELSE promote(self, classify(val))

\* InferredType::to_data_type
to_data_type(self) ==
    CASE self = "Null"   -> "Null"
      [] self = "Bool"   -> "Boolean"
      [] self = "Int"    -> "Int"
      [] self = "Float"  -> "Float"
      [] self = "String" -> "String"

(* inputs of the inference specifications *)

S42 == <<"4", "2">>
S3_14 == <<"3", ".", "1", "4">>
STrue == <<"t", "r", "u", "e">>
SHello == <<"h", "e", "l", "l", "o">>
SBlank == <<" ", " ", " ">>
InferSamples == { <<>>, SBlank, S42, S3_14, STrue, SHello }

SNines == [i \in 1..25 |-> "9"]
SMaxPlusOne == I64MinDigits
NamedSamples ==
    { S42, S3_14, STrue, SHello, SBlank, SNines, I64MaxDigits, SMaxPlusOne,
      <<"-">> \o I64MinDigits,
      <<"-">> \o I64MaxDigits \o <<"0">>,
      <<"T", "R", "U", "E">>, <<"F", "a", "l", "s", "e">>, <<"f", "a", "l", "s", "e">>,
      <<" ", "4", "2", " ">>, <<"-", "1", "0", "0">>, <<"+", "7">>,
      <<"0", ".", "0", "0", "0", "1">>, <<"1", "e", "5">>, <<"1", "E", "-", "5">>,
      <<"i", "n", "f">>, <<"N", "a", "N">>, <<"y", "e", "s">>,
      <<"n", "o", "t", " ", "a", " ", "n", "u", "m", "b", "e", "r">> }
SampleChars == {"1", "-", ".", "e", " ", "x"}
Texts(n) == UNION { [1..k -> SampleChars] : k \in 0..n }
ClassifySamples == NamedSamples \cup Texts(MaxLen)

----------------------------------------------------------------------------
(* The virtual table: lib.rs *)

Cell(v) == [null |-> FALSE, v |-> v]
NullCell == [null |-> TRUE, v |-> 0]

\* polars DataFrame: column names, column dtypes, rows of cells
DataFrame(names, dtypes, rows) == [names |-> names, dtypes |-> dtypes, rows |-> rows]
height(frame) == Len(frame.rows)

\* storage.rs df_dtype_to_sqlite_dtype followed by SQLiteDataTypes::as_str
df_dtype_to_sqlite_dtype(dtype) ==
    CASE dtype \in {"UInt8", "UInt16", "UInt32", "Int8", "Int16", "Int32",
                    "Int64", "UInt64", "Int128"} -> "INTEGER"
      [] dtype \in {"Float32", "Float64"} -> "REAL"
      [] dtype = "String" -> "TEXT"
      [] dtype = "Null" -> "NULL"
      [] dtype = "Binary" -> "BLOB"
      [] dtype \in {"Boolean", "Datetime", "Date"} -> "NUMERIC"
      [] OTHER -> "TEXT"

\* the operators the planner may attach to a constraint
ComparisonOps == {"EQ", "GT", "LT", "GE", "LE", "NE"}
OtherOps == {"LIKE"}
ConstraintOperator == ComparisonOps \cup OtherOps

\* the match on constraint.op() in best_index; <<>> stands for `continue`
op_text(op) ==
    CASE op = "EQ" -> <<"=">>
      [] op = "GT" -> <<">">>
      [] op = "LT" -> <<"<">>
      [] op = "GE" -> <<">", "=">>
      [] op = "LE" -> <<"<", "=">>
      [] op = "NE" -> <<"!", "=">>
      [] OTHER -> <<>>

\* best_index_loop numbering the slots by the constraint's position in the list
RECURSIVE best_index_loop_by_position(_, _, _, _, _)
best_index_loop_by_position(constraints, i, used_cols, used_ops, argv) ==
    IF i > Len(constraints) THEN
        [used_cols |-> used_cols, used_ops |-> used_ops, argv |-> argv]
    ELSE IF constraints[i].usable /\ op_text(constraints[i].op) # <<>> THEN
        best_index_loop_by_position(constraints, i + 1,
                        Append(used_cols, constraints[i].column),
                        Append(used_ops, op_text(constraints[i].op)),
                        Append(argv, i))
    ELSE
        best_index_loop_by_position(constraints, i + 1, used_cols, used_ops,
                                    Append(argv, 0))

\* the loop of best_index over info.constraints(); argv holds each constraint's
\* argv_index, 0 when set_argv_index was not called
RECURSIVE best_index_loop(_, _, _, _, _)
best_index_loop(constraints, i, used_cols, used_ops, argv) ==
    IF i > Len(constraints) THEN
        [used_cols |-> used_cols, used_ops |-> used_ops, argv |-> argv]
    ELSE IF constraints[i].usable /\ op_text(constraints[i].op) # <<>> THEN
        best_index_loop(constraints, i + 1,
                        Append(used_cols, constraints[i].column),
                        Append(used_ops, op_text(constraints[i].op)),
                        Append(argv, Len(used_cols) + 1))
    ELSE
        best_index_loop(constraints, i + 1, used_cols, used_ops, Append(argv, 0))

\* UrlTable::best_index
best_index(constraints) ==
    LET r == best_index_loop(constraints, 1, <<>>, <<>>, <<>>)
        entries == [k \in 1..Len(r.used_cols) |->
                       FormatInt(r.used_cols[k]) \o r.used_ops[k]]
    IN  [planned |-> TRUE,
         constraints |-> constraints,
         argv |-> r.argv,
         idxstr |-> Join(entries, ","),
         idxnum |-> Len(r.used_cols)]

NoPlan == [planned |-> FALSE, constraints |-> <<>>, argv |-> <<>>,
           idxstr |-> <<>>, idxnum |-> 0]

\* UrlCursor::new
UrlCursor_new(frame) == [row_idx |-> 0, filtered_df |-> frame]

\* UrlTable::open
open(vtab_df) == UrlCursor_new(vtab_df)

\* filter: one entry of the token, decoded as lines 414-432 do; ok is FALSE where
\* the code takes a `continue`
decode_part(part) ==
    LET trimmed == Trim(part)
        ends_eq == trimmed # <<>> /\ trimmed[Len(trimmed)] = "="
        col_str == IF ends_eq THEN SubSeq(trimmed, 1, Len(trimmed) - 1) ELSE trimmed
        op      == IF ends_eq THEN <<"=">> ELSE <<>>
        ok      == trimmed # <<>> /\ col_str # <<>> /\ ParseUsizeOk(col_str)
    IN  [ok |-> ok, col_idx |-> IF ok THEN ParseUsize(col_str) ELSE 0, op |-> op]

\* filter: the literal built from the runtime argument for the column's dtype
filter_value(col_type, arg) ==
    IF col_type = "Boolean" THEN (IF arg # 0 THEN 1 ELSE 0) ELSE arg

\* filter: the match on op that builds filter_expr; other texts `continue`
FilterOps == { <<"=">>, <<">">>, <<"<">>, <<">", "=">>, <<"<", "=">>, <<"!">> }
filter_expr(op, cell, literal) ==
    /\ ~cell.null
    /\ CASE op = <<"=">> -> cell.v = literal
         [] op = <<">">> -> cell.v > literal
         [] op = <<"<">> -> cell.v < literal
         [] op = <<">", "=">> -> cell.v >= literal
         [] op = <<"<", "=">> -> cell.v <= literal
         [] op = <<"!">> -> cell.v # literal
         [] OTHER -> FALSE

column_of(frame, name) == CHOOSE j \in 1..Len(frame.names) : frame.names[j] = name

\* filter: does the row pass the predicate, if any, that entry i of the token adds
part_keeps(vtab_df, vtab_headers, row, part, i, args) ==
    LET d == decode_part(part)
    IN  IF ~d.ok \/ d.op \notin FilterOps THEN TRUE
        ELSE filter_expr(d.op,
                         row[column_of(vtab_df, vtab_headers[d.col_idx + 1])],
                         filter_value(vtab_df.dtypes[d.col_idx + 1], args[i]))

\* filter: lf.collect() after the loop over idx_str.split(',')
collect(source, vtab_df, vtab_headers, idx_str, args) ==
    LET parts == Split(idx_str, ",")
        keep(row) == \A i \in 1..Len(parts) :
                        part_keeps(vtab_df, vtab_headers, row, parts[i], i, args)
    IN  DataFrame(source.names, source.dtypes, SelectSeq(source.rows, keep))

\* filter narrowing the cursor's current view instead of the base table
filter_source_own_view(self, vtab_df) == self.filtered_df

\* filter: the frame the predicates are applied to, `vtab.df.clone().lazy()`
filter_source(self, vtab_df) == vtab_df

\* filter without the `self.row_idx = 0` of line 485
filter_keeping_position(self, vtab_df, vtab_headers, idx_str, args) ==
    [row_idx |-> self.row_idx,
     filtered_df |-> collect(filter_source(self, vtab_df), vtab_df, vtab_headers,
                             idx_str, args)]

\* UrlCursor::filter
filter(self, vtab_df, vtab_headers, idx_str, args) ==
    [row_idx |-> 0,
     filtered_df |-> collect(filter_source(self, vtab_df), vtab_df, vtab_headers,
                             idx_str, args)]

\* UrlCursor::next
next(self) == [self EXCEPT !.row_idx = self.row_idx + 1]

\* UrlCursor::eof
eof(self) == self.row_idx >= height(self.filtered_df)

\* UrlCursor::rowid
rowid(self) == self.row_idx

\* UrlCursor::column: select_at_idx(i) then get(row_idx); an index past the end
\* gives Err, reported as NULL
column(self, i) ==
    IF self.row_idx + 1 \in 1..height(self.filtered_df)
    THEN self.filtered_df.rows[self.row_idx + 1][i + 1]
    ELSE NullCell

(* Readers: io/csv_reader.rs, io/avro_reader.rs, dtypes/schema.rs.           *)
(* A delimited-text payload is modelled as the records the csv crate frames   *)
(* from it: the header record, then the data records, each a list of field   *)
(* texts. An Avro payload is modelled as the container being readable or     *)
(* not, and the values the avro_rs reader decodes from it one by one.        *)

\* ValueLiteral: the tag and the payload; an Int is held as its canonical
\* decimal text, a Float as the Display text of its f64 value, a Boolean as
\* "true" or "false", a Blob as its bytes in hexadecimal
ValueLiteral(tag, text) == [tag |-> tag, text |-> text]
TypedValue(dtype, value) == [dtype |-> dtype, value |-> value]

\* i64 Display of a text that parses as i64: no '+', no leading zeros, no "-0"
CanonicalInt(s) ==
    LET mag == StripZeros(Unsigned(s))
    IN  IF mag = <<>> THEN <<"0">>
        ELSE IF HasSign(s) /\ Head(s) = "-" THEN <<"-">> \o mag ELSE mag

\* impl Display for ValueLiteral
display(value) ==
    CASE value.tag = "Null" -> <<"N", "U", "L", "L">>
      [] value.tag = "Blob" -> <<"0", "x">> \o value.text
      [] OTHER -> value.text

\* parse_str_value with the field trimmed first, as schema discovery does
parse_str_value_trimmed(s) ==
    LET t == Trim(s)
    IN  IF t = <<>> THEN TypedValue("Null", ValueLiteral("Null", <<>>))
        ELSE IF ParseI64Ok(t) THEN TypedValue("Int", ValueLiteral("Int", CanonicalInt(t)))
        ELSE IF ParseF64Ok(t) THEN TypedValue("Real", ValueLiteral("Float", FormatF64(t)))
        ELSE IF t \in { <<"t","r","u","e">>, <<"f","a","l","s","e">> }
             THEN TypedValue("Numeric", ValueLiteral("Boolean", t))
        ELSE TypedValue("Text", ValueLiteral("Text", t))

\* parse_str_value
parse_str_value(s) ==
    IF s = <<>> THEN TypedValue("Null", ValueLiteral("Null", <<>>))
    ELSE IF ParseI64Ok(s) THEN TypedValue("Int", ValueLiteral("Int", CanonicalInt(s)))
    ELSE IF ParseF64Ok(s) THEN TypedValue("Real", ValueLiteral("Float", FormatF64(s)))
    ELSE IF s \in { <<"t","r","u","e">>, <<"f","a","l","s","e">> }
         THEN TypedValue("Numeric", ValueLiteral("Boolean", s))
    ELSE TypedValue("Text", ValueLiteral("Text", s))

SchemaField(name, dtype, nullable) == [name |-> name, dtype |-> dtype, nullable |-> nullable]

OkItem(row) == [ok |-> TRUE, row |-> row, err |-> "none"]
ErrItem(kind) == [ok |-> FALSE, row |-> <<>>, err |-> kind]

NoReader == [built |-> FALSE, ok |-> FALSE, kind |-> "none", err |-> "none",
             schema |-> <<>>, bytes_read |-> 0, total_rows |-> 0, records |-> <<>>]
ReaderError(kind, err) == [built |-> TRUE, ok |-> FALSE, kind |-> kind, err |-> err,
                           schema |-> <<>>, bytes_read |-> 0, total_rows |-> 0,
                           records |-> <<>>]

\* try_new, lines 70-76, with has_nulls[j] assigned from the current field alone
csv_record_fields_last_wins(st, record) ==
    [st EXCEPT
        !.inferred_types = [j \in 1..Len(st.inferred_types) |->
            IF Trim(record[j]) = <<>> THEN st.inferred_types[j]
            ELSE update(st.inferred_types[j], record[j])],
        !.has_nulls = [j \in 1..Len(st.has_nulls) |-> Trim(record[j]) = <<>>]]

\* CsvReader::try_new, lines 70-76: the loop over the fields of one record
csv_record_fields(st, record) ==
    [st EXCEPT
        !.inferred_types = [j \in 1..Len(st.inferred_types) |->
            IF Trim(record[j]) = <<>> THEN st.inferred_types[j]
            ELSE update(st.inferred_types[j], record[j])],
        !.has_nulls = [j \in 1..Len(st.has_nulls) |->
            st.has_nulls[j] \/ Trim(record[j]) = <<>>]]

\* CsvReader::try_new, lines 65-81: the loop over reader.records(); i counts
\* from 0 as enumerate() does; a record whose length differs from the header's
\* is the csv crate's UnequalLengths error, returned by `result?`
RECURSIVE csv_sample_loop(_, _, _, _)
csv_sample_loop(records, i, max_infer_rows, st) ==
    IF i >= Len(records) THEN st
    ELSE IF Len(records[i + 1]) # Len(st.inferred_types) THEN [st EXCEPT !.failed = TRUE]
    ELSE
        LET counted == [st EXCEPT !.total_rows = st.total_rows + 1,
                                  !.bytes_read = st.bytes_read + Len(records[i + 1])]
            fed == csv_record_fields(counted, records[i + 1])
        IN  IF i + 1 >= max_infer_rows THEN fed
            ELSE csv_sample_loop(records, i + 1, max_infer_rows, fed)

\* CsvReader::try_new
csv_try_new(data, max_infer_rows) ==
    LET column_count == Len(data.header)
        st0 == [inferred_types |-> [j \in 1..column_count |-> "Null"],
                has_nulls |-> [j \in 1..column_count |-> FALSE],
                total_rows |-> 0, bytes_read |-> 0, failed |-> FALSE]
        st == csv_sample_loop(data.records, 0, max_infer_rows, st0)
    IN  IF st.failed THEN ReaderError("csv", "Csv")
        ELSE [built |-> TRUE, ok |-> TRUE, kind |-> "csv", err |-> "none",
              schema |-> [j \in 1..column_count |->
                            SchemaField(data.header[j],
                                        to_data_type(st.inferred_types[j]),
                                        st.has_nulls[j])],
              bytes_read |-> st.bytes_read,
              total_rows |-> st.total_rows,
              records |-> <<>>]

\* iter_rows continuing after the records that schema discovery consumed
csv_iter_rows_after_sample(self, data) ==
    [kind |-> "csv", column_count |-> Len(data.header),
     src |-> SubSeq(data.records, self.total_rows + 1, Len(data.records)),
     pos |-> 0, done |-> FALSE]

\* CsvReader::iter_rows: a new csv::Reader over self.data, header skipped
csv_iter_rows(self, data) ==
    [kind |-> "csv", column_count |-> Len(data.header), src |-> data.records,
     pos |-> 0, done |-> FALSE]

\* CsvRowIterator::next: the item returned, for an iterator that is not at the end
csv_next_item(it) ==
    LET buf == it.src[it.pos + 1]
    IN  IF Len(buf) # it.column_count THEN ErrItem("Csv")
        ELSE OkItem([j \in 1..Len(buf) |-> parse_str_value(buf[j])])

(* Avro values as avro_rs decodes them *)

AvroScalar(tag, text) == [tag |-> tag, text |-> text]
AvroNull == [tag |-> "Null"]
AvroUnion(inner) == [tag |-> "Union", inner |-> inner]
AvroArray == [tag |-> "Array"]
AvroMap == [tag |-> "Map"]
AvroRecord(fields) == [tag |-> "Record", fields |-> fields]
AvroField(name, value) == [name |-> name, value |-> value]

IntegerTags == {"Int", "Long", "TimeMillis", "TimeMicros", "Date",
                "TimestampMillis", "TimestampMicros"}
FloatTags == {"Float", "Double"}
BlobTags == {"Duration", "Decimal", "Bytes", "Fixed"}
TextTags == {"String", "Enum", "Uuid"}
ComplexTags == {"Array", "Map", "Record"}

\* dtype_from_avro: the DataType of a decoded value
RECURSIVE dtype_from_avro(_)
dtype_from_avro(value) ==
    CASE value.tag = "Null" -> "Null"
      [] value.tag = "Boolean" -> "Numeric"
      [] value.tag \in IntegerTags -> "Int"
      [] value.tag \in FloatTags -> "Real"
      [] value.tag \in BlobTags -> "Blob"
      [] value.tag \in TextTags -> "Text"
      [] value.tag = "Union" -> dtype_from_avro(value.inner)
      [] OTHER -> "Text"

\* convert_avro_value with a nested value rendered as text instead of refused
RECURSIVE convert_avro_value_stringify(_)
convert_avro_value_stringify(value) ==
    CASE value.tag = "Null" -> [ok |-> TRUE, value |-> ValueLiteral("Null", <<>>)]
      [] value.tag = "Boolean" -> [ok |-> TRUE, value |-> ValueLiteral("Boolean", value.text)]
      [] value.tag \in IntegerTags -> [ok |-> TRUE, value |-> ValueLiteral("Int", value.text)]
      [] value.tag \in FloatTags -> [ok |-> TRUE, value |-> ValueLiteral("Float", value.text)]
      [] value.tag \in BlobTags -> [ok |-> TRUE, value |-> ValueLiteral("Blob", value.text)]
      [] value.tag \in TextTags -> [ok |-> TRUE, value |-> ValueLiteral("Text", value.text)]
      [] value.tag = "Union" -> convert_avro_value_stringify(value.inner)
      [] OTHER -> [ok |-> TRUE, value |-> ValueLiteral("Text", <<"[", "]">>)]

\* convert_avro_value
RECURSIVE convert_avro_value(_)
convert_avro_value(value) ==
    CASE value.tag = "Null" -> [ok |-> TRUE, value |-> ValueLiteral("Null", <<>>)]
      [] value.tag = "Boolean" -> [ok |-> TRUE, value |-> ValueLiteral("Boolean", value.text)]
      [] value.tag \in IntegerTags -> [ok |-> TRUE, value |-> ValueLiteral("Int", value.text)]
      [] value.tag \in FloatTags -> [ok |-> TRUE, value |-> ValueLiteral("Float", value.text)]
      [] value.tag \in BlobTags -> [ok |-> TRUE, value |-> ValueLiteral("Blob", value.text)]
      [] value.tag \in TextTags -> [ok |-> TRUE, value |-> ValueLiteral("Text", value.text)]
      [] value.tag = "Union" -> convert_avro_value(value.inner)
      [] OTHER -> [ok |-> FALSE, value |-> ValueLiteral("Null", <<>>)]

\* the decoding loop stopping quietly at a value that fails to decode
RECURSIVE avro_decode_all_keep_prefix(_, _)
avro_decode_all_keep_prefix(items, records) ==
    IF items = <<>> THEN [ok |-> TRUE, records |-> records]
    ELSE IF ~Head(items).ok THEN [ok |-> TRUE, records |-> records]
    ELSE avro_decode_all_keep_prefix(Tail(items), Append(records, Head(items).value))

\* AvroReader::try_new, lines 61-66: the decoded values up to the first one
\* that fails to decode
RECURSIVE avro_decode_all(_, _)
avro_decode_all(items, records) ==
    IF items = <<>> THEN [ok |-> TRUE, records |-> records]
    ELSE IF ~Head(items).ok THEN [ok |-> FALSE, records |-> records]
    ELSE avro_decode_all(Tail(items), Append(records, Head(items).value))

\* try_new taking the schema from the last decoded record
avro_try_new_last_record(data, max_infer_rows) ==
    IF ~data.framed THEN ReaderError("avro", "InvalidFormat")
    ELSE
        LET decoded == avro_decode_all(data.items, <<>>)
            last == Len(decoded.records)
        IN  IF ~decoded.ok THEN ReaderError("avro", "InvalidFormat")
            ELSE IF decoded.records = <<>> \/ decoded.records[last].tag # "Record"
                 THEN ReaderError("avro", "InvalidFormat")
            ELSE [built |-> TRUE, ok |-> TRUE, kind |-> "avro", err |-> "none",
                  schema |-> [j \in 1..Len(decoded.records[last].fields) |->
                      SchemaField(decoded.records[last].fields[j].name,
                                  dtype_from_avro(decoded.records[last].fields[j].value),
                                  decoded.records[last].fields[j].value.tag = "Null")],
                  bytes_read |-> Len(decoded.records),
                  total_rows |-> Len(decoded.records),
                  records |-> decoded.records]

\* AvroReader::try_new; bytes_read is counted in units of size_of::<Value>()
avro_try_new(data, max_infer_rows) ==
    IF ~data.framed THEN ReaderError("avro", "InvalidFormat")
    ELSE
        LET decoded == avro_decode_all(data.items, <<>>)
        IN  IF ~decoded.ok THEN ReaderError("avro", "InvalidFormat")
            ELSE IF decoded.records = <<>> \/ decoded.records[1].tag # "Record"
                 THEN ReaderError("avro", "InvalidFormat")
            ELSE [built |-> TRUE, ok |-> TRUE, kind |-> "avro", err |-> "none",
                  schema |-> [j \in 1..Len(decoded.records[1].fields) |->
                      SchemaField(decoded.records[1].fields[j].name,
                                  dtype_from_avro(decoded.records[1].fields[j].value),
                                  decoded.records[1].fields[j].value.tag = "Null")],
                  bytes_read |-> Len(decoded.records),
                  total_rows |-> Len(decoded.records),
                  records |-> decoded.records]

\* AvroReader::iter_rows: an iterator over a clone of self.records
avro_iter_rows(self) ==
    [kind |-> "avro", column_count |-> 0, src |-> self.records, pos |-> 0,
     done |-> FALSE]

\* AvroRowIterator::next: the item returned, for an iterator that is not at the end
avro_next_item(it) ==
    LET value == it.src[it.pos + 1]
    IN  IF value.tag # "Record" THEN ErrItem("InvalidFormat")
        ELSE IF \E j \in 1..Len(value.fields) : ~convert_avro_value(value.fields[j].value).ok
             THEN ErrItem("InvalidFormat")
        ELSE OkItem([j \in 1..Len(value.fields) |->
                        TypedValue(dtype_from_avro(value.fields[j].value),
                                   convert_avro_value(value.fields[j].value).value)])

(* inputs of the reader specification *)

CsvHeader == << <<"a">>, <<"b">> >>
CsvRows == { << <<"7">>, <<>> >>,
             << <<" ">>, <<"x">> >>,
             << <<"1", ".", "5">>, <<"t", "r", "u", "e">> >>,
             << <<"7">> >> }
CsvPayloads ==
    { [kind |-> "csv", header |-> CsvHeader, records |-> r] :
        r \in UNION { [1..k -> CsvRows] : k \in 0..MaxRows } }

AvroValues ==
    { AvroRecord(<<AvroField("id", AvroScalar("Int", <<"1">>)),
                   AvroField("name", AvroScalar("String", <<"a">>))>>),
      AvroRecord(<<AvroField("id", AvroScalar("Int", <<"2">>)),
                   AvroField("name", AvroUnion(AvroNull))>>),
      AvroRecord(<<AvroField("id", AvroScalar("Long", <<"3">>)),
                   AvroField("name", AvroUnion(AvroArray))>>),
      AvroRecord(<<AvroField("id", AvroMap),
                   AvroField("name", AvroScalar("String", <<"b">>))>>),
      AvroScalar("Int", <<"5">>) }
AvroItems == { [ok |-> TRUE, value |-> v] : v \in AvroValues }
                 \cup { [ok |-> FALSE, value |-> AvroNull] }
AvroPayloads ==
    { [kind |-> "avro", framed |-> TRUE, items |-> r] :
        r \in UNION { [1..k -> AvroItems] : k \in 0..MaxRows } }
    \cup { [kind |-> "avro", framed |-> FALSE, items |-> <<>>] }

NoPayload == [kind |-> "none"]

(* inputs of the row-typing specification: one column, two data records; the
   first record is one of a few values that settle what schema discovery
   infers, the second is any of the field texts *)

NamedFieldSamples ==
    { S42, S3_14, STrue, SHello, I64MaxDigits, SMaxPlusOne,
      <<"f", "a", "l", "s", "e">>, <<"T", "r", "u", "e">>, <<"T", "R", "U", "E">>,
      <<" ", "4", "2", " ">>, <<"+", "7">>, <<"0", "0", "7">>, <<"-", "0">>,
      <<"1", ".", "0">>, <<"-", "2", ".", "5", "0">>, <<"1", "e", "5">>,
      <<"1", "E", "-", "5">>, <<"i", "n", "f">>, <<"-", "I", "n", "f">>,
      <<"N", "a", "N">>, <<"n", "a", "n">>, <<"N", "U", "L", "L">>,
      <<"0", "x", "f", "f">> }
FieldSamples == NamedFieldSamples \cup Texts(MaxLen)
SchemaSetters == { <<"7">>, <<"x">>, <<"1", ".", "5">>, STrue }
RowPayloads ==
    { [kind |-> "csv", header |-> << <<"a">> >>, records |-> << <<f1>>, <<f2>> >>] :
        f1 \in SchemaSetters, f2 \in FieldSamples }

(* inputs of the table specifications *)

TableA == DataFrame(<<"id", "flag">>, <<"Int64", "Boolean">>,
                    << <<Cell(1), Cell(0)>>, <<NullCell, Cell(1)>> >>)
TableB == DataFrame(<<"id", "flag">>, <<"Int64", "Boolean">>, <<>>)
Tables == {TableA, TableB}

Constraint(cols) == [column : cols, op : ConstraintOperator, usable : BOOLEAN]
ConstraintLists(cols, n) == UNION { [1..k -> Constraint(cols)] : k \in 0..n }

Con(c, o, u) == [column |-> c, op |-> o, usable |-> u]
HostPlans == { <<Con(0, "EQ", TRUE)>>,
               <<Con(0, "GT", FALSE), Con(1, "EQ", TRUE)>> }
ArgValues == {0, 1}
ArgLists(n) == [1..n -> ArgValues]

NoCall == [filtered |-> FALSE, nexts |-> 0, plan |-> NoPlan, args |-> <<>>]

InitInfer == acc = "Null" /\ seen = <<>>
InitPlan == idx = NoPlan
InitTableOf(tables) ==
    /\ df \in tables
    /\ headers = df.names
    /\ columns_types = [j \in 1..Len(df.dtypes) |-> df_dtype_to_sqlite_dtype(df.dtypes[j])]
InitTable == InitTableOf(Tables)
InitNoTable == InitTableOf({TableB})
InitCursors == cursors = <<>> /\ calls = <<>> /\ ret = NullCell
InitReaders ==
    payload = NoPayload /\ budget = 0 /\ reader = NoReader /\ iters = <<>> /\ yielded = <<>>
NoVTab == [headers |-> <<>>, rows |-> <<>>]
NoVCursor == [open |-> FALSE, row_idx |-> 0, filtered_rows |-> <<>>]
NoVCall == [filtered |-> FALSE, constraints |-> <<>>, idx_str |-> <<>>, args |-> <<>>]
NoDb == [has_metadata |-> FALSE, metadata |-> <<>>,
         has_data |-> FALSE, columns |-> <<>>, rows |-> <<>>]
NoGate == [called |-> FALSE, n |-> 0]
NoParsed == [done |-> FALSE]
NoLookup == [done |-> FALSE]
InitVectorIdle == vtab = NoVTab /\ vcursor = NoVCursor /\ vcall = NoVCall
InitGateIdle == db = NoDb /\ gate = NoGate /\ fetches = 0
InitArgsIdle == vt_args = <<>> /\ parsed_args = NoParsed /\ lookup = NoLookup
NoOutcome == [done |-> FALSE]
InitLateIdle ==
    avro_out = NoOutcome /\ inserts = NoOutcome /\ header_trip = NoOutcome /\ stmts = <<>>
InitExt == InitVectorIdle /\ InitGateIdle /\ InitArgsIdle /\ InitLateIdle
InitIdle == InitInfer /\ InitPlan /\ InitNoTable /\ InitCursors /\ InitReaders /\ InitExt

(* actions of the table specifications *)

BestIndexOf(inputs) ==
    /\ \E cs \in inputs : idx' = best_index(cs)
    /\ UNCHANGED <<extVars, inferVars, tableVars, cursorVars, readerVars>>

\* the planner offers one of the host's constraint lists
BestIndex == BestIndexOf(HostPlans)

\* one planning call on any constraint list, rowid (column -1) included
PlanAny == ~idx.planned /\ BestIndexOf(ConstraintLists(-1..1, MaxConstraints))

\* one statement: planned once over the table's columns, then run
PlanOnce == ~idx.planned /\ BestIndexOf(ConstraintLists(0..1, MaxConstraints))

OpenUpTo(n) ==
    /\ Len(cursors) < n
    /\ cursors' = Append(cursors, open(df))
    /\ calls' = Append(calls, NoCall)
    /\ UNCHANGED <<extVars, inferVars, planVars, tableVars, ret, readerVars>>

Open == OpenUpTo(MaxCursors)
OpenOne == OpenUpTo(1)

\* the host runs the plan of the last best_index: its token, one argument per slot
Filter ==
    /\ idx.planned
    /\ \E c \in 1..Len(cursors), args \in ArgLists(idx.idxnum) :
        /\ cursors' = [cursors EXCEPT ![c] = filter(cursors[c], df, headers, idx.idxstr, args)]
        /\ calls' = [calls EXCEPT ![c] =
                        [filtered |-> TRUE, nexts |-> 0, plan |-> idx, args |-> args]]
    /\ UNCHANGED <<extVars, inferVars, planVars, tableVars, ret, readerVars>>

Next_ ==
    /\ \E c \in 1..Len(cursors) :
        /\ cursors[c].row_idx < height(cursors[c].filtered_df) + MaxExtraNext
        /\ cursors' = [cursors EXCEPT ![c] = next(cursors[c])]
        /\ calls' = [calls EXCEPT ![c].nexts = calls[c].nexts + 1]
    /\ UNCHANGED <<extVars, inferVars, planVars, tableVars, ret, readerVars>>

Column ==
    /\ \E c \in 1..Len(cursors), i \in 0..(Len(headers) - 1) :
        /\ ~eof(cursors[c])
        /\ ret' = column(cursors[c], i)
    /\ UNCHANGED <<extVars, inferVars, planVars, tableVars, cursors, calls, readerVars>>

Rowid ==
    /\ \E c \in 1..Len(cursors) : ret' = Cell(rowid(cursors[c]))
    /\ UNCHANGED <<extVars, inferVars, planVars, tableVars, cursors, calls, readerVars>>

\* cursors of one table, driven by the host in any interleaving
InitCursor == InitInfer /\ InitPlan /\ InitTable /\ InitCursors /\ InitReaders /\ InitExt
NextCursor == BestIndex \/ Open \/ Filter \/ Next_ \/ Column \/ Rowid
SpecCursor == InitCursor /\ [][NextCursor]_vars

\* one statement from planning to the filtered view
NextFilter == PlanOnce \/ OpenOne \/ Filter
SpecFilter == InitCursor /\ [][NextFilter]_vars

\* planning alone
NextPlan == PlanAny
SpecPlan == InitIdle /\ [][NextPlan]_vars

(* actions of the inference specifications *)

UpdateFrom(samples, limit) ==
    /\ Len(seen) < limit
    /\ \E s \in samples :
        /\ acc' = update(acc, s)
        /\ seen' = Append(seen, s)
    /\ UNCHANGED <<extVars, planVars, tableVars, cursorVars, readerVars>>

\* one accumulator fed a sequence of samples
Update == UpdateFrom(InferSamples, MaxUpdates)

\* a fresh accumulator fed one sample
UpdateOnce == UpdateFrom(ClassifySamples, 1)

NextInfer == Update
SpecInfer == InitIdle /\ [][NextInfer]_vars

NextClassify == UpdateOnce
SpecClassify == InitIdle /\ [][NextClassify]_vars

(* actions of the reader specification *)

InitReaderInputs ==
    /\ payload \in CsvPayloads \cup AvroPayloads
    /\ budget \in 0..MaxBudget
    /\ reader = NoReader
    /\ iters = <<>>
    /\ yielded = <<>>

CsvTryNew ==
    /\ payload.kind = "csv" /\ ~reader.built
    /\ reader' = csv_try_new(payload, budget)
    /\ UNCHANGED <<extVars, inferVars, planVars, tableVars, cursorVars, payload, budget, iters, yielded>>

AvroTryNew ==
    /\ payload.kind = "avro" /\ ~reader.built
    /\ reader' = avro_try_new(payload, budget)
    /\ UNCHANGED <<extVars, inferVars, planVars, tableVars, cursorVars, payload, budget, iters, yielded>>

CsvIterRows ==
    /\ reader.ok /\ reader.kind = "csv" /\ Len(iters) < MaxIters
    /\ iters' = Append(iters, csv_iter_rows(reader, payload))
    /\ yielded' = Append(yielded, <<>>)
    /\ UNCHANGED <<extVars, inferVars, planVars, tableVars, cursorVars, payload, budget, reader>>

AvroIterRows ==
    /\ reader.ok /\ reader.kind = "avro" /\ Len(iters) < MaxIters
    /\ iters' = Append(iters, avro_iter_rows(reader))
    /\ yielded' = Append(yielded, <<>>)
    /\ UNCHANGED <<extVars, inferVars, planVars, tableVars, cursorVars, payload, budget, reader>>

\* Iterator::next on one of the iterators: an item, or None at the end
IterNextOf(kind) ==
    /\ \E k \in 1..Len(iters) :
        /\ iters[k].kind = kind /\ ~iters[k].done
        /\ IF iters[k].pos < Len(iters[k].src)
           THEN /\ iters' = [iters EXCEPT ![k].pos = iters[k].pos + 1]
                /\ yielded' = [yielded EXCEPT ![k] =
                      Append(yielded[k],
                             IF kind = "csv" THEN csv_next_item(iters[k])
                             ELSE avro_next_item(iters[k]))]
           ELSE /\ iters' = [iters EXCEPT ![k].done = TRUE]
                /\ UNCHANGED yielded
    /\ UNCHANGED <<extVars, inferVars, planVars, tableVars, cursorVars, payload, budget, reader>>

CsvIterNext == IterNextOf("csv")
AvroIterNext == IterNextOf("avro")

InitReader ==
    InitInfer /\ InitPlan /\ InitNoTable /\ InitCursors /\ InitReaderInputs /\ InitExt
NextReader ==
    CsvTryNew \/ AvroTryNew \/ CsvIterRows \/ AvroIterRows \/ CsvIterNext \/ AvroIterNext
SpecReader == InitReader /\ [][NextReader]_vars

(* the row-typing specification: one reader over a one-column payload and
   one iterator over its rows *)

InitRowInputs ==
    /\ payload \in RowPayloads
    /\ budget \in 1..2
    /\ reader = NoReader
    /\ iters = <<>>
    /\ yielded = <<>>

CsvIterRowsOnce == iters = <<>> /\ CsvIterRows

InitRows ==
    InitInfer /\ InitPlan /\ InitNoTable /\ InitCursors /\ InitRowInputs /\ InitExt
NextRows == CsvTryNew \/ CsvIterRowsOnce \/ CsvIterNext
SpecRows == InitRows /\ [][NextRows]_vars

----------------------------------------------------------------------------
(* Arguments and names: args.rs, storage.rs *)

ToUpperChar(c) ==
    IF \E i \in 1..26 : LowerChars[i] = c
    THEN UpperChars[CHOOSE i \in 1..26 : LowerChars[i] = c]
    ELSE c
ToUpper(s) == [i \in 1..Len(s) |-> ToUpperChar(s[i])]

\* str::trim_matches for a set of characters
RECURSIVE TrimStartMatches(_, _)
TrimStartMatches(s, cs) ==
    IF s # <<>> /\ Head(s) \in cs THEN TrimStartMatches(Tail(s), cs) ELSE s
RECURSIVE TrimEndMatches(_, _)
TrimEndMatches(s, cs) ==
    IF s # <<>> /\ s[Len(s)] \in cs
    THEN TrimEndMatches(SubSeq(s, 1, Len(s) - 1), cs) ELSE s
TrimMatches(s, cs) == TrimEndMatches(TrimStartMatches(s, cs), cs)
QuoteChars == {"'", "\""}

\* HashMap::insert: a later value replaces an earlier one under the same key
Insert(map, key, value) ==
    [k \in DOMAIN map \cup {key} |-> IF k = key THEN value ELSE map[k]]

\* HashMap::get as an Option
Get(map, key) ==
    IF key \in DOMAIN map THEN [some |-> TRUE, value |-> map[key]]
    ELSE [some |-> FALSE, value |-> <<>>]

\* the key of a named argument left in the case it was written in
parse_args_key_as_written(key_part) == Trim(key_part)

\* parse_args, line 16: the key of a named argument
parse_args_key(key_part) == ToUpper(Trim(key_part))

\* parse_args, lines 13-31: the loop over the arguments
RECURSIVE parse_args_loop(_, _, _)
parse_args_loop(args, named, positional) ==
    IF args = <<>> THEN [named |-> named, positional |-> positional]
    ELSE
        LET arg == Head(args)
            eq_pos == FirstIndex(arg, {"="})
        IN  IF eq_pos # 0
            THEN LET key == parse_args_key(SubSeq(arg, 1, eq_pos - 1))
                     value == Trim(SubSeq(arg, eq_pos + 1, Len(arg)))
                     clean_value == TrimMatches(value, QuoteChars)
                 IN  parse_args_loop(Tail(args), Insert(named, key, clean_value),
                                     positional)
            ELSE LET val == TrimMatches(Trim(arg), QuoteChars)
                 IN  parse_args_loop(Tail(args), named,
                                     IF val # <<>> THEN Append(positional, val)
                                     ELSE positional)

\* parse_args
parse_args(args) ==
    LET r == parse_args_loop(args, <<>>, <<>>)
    IN  [done |-> TRUE, named |-> r.named, positional |-> r.positional]

Str_CSV == <<"C", "S", "V">>
Str_AVRO == <<"A", "V", "R", "O">>
Str_PARQUET == <<"P", "A", "R", "Q", "U", "E", "T">>
Str_JSON == <<"J", "S", "O", "N">>
Str_JSONL == <<"J", "S", "O", "N", "L">>
Str_NDJSON == <<"N", "D", "J", "S", "O", "N">>
Str_TEMP == <<"T", "E", "M", "P">>
Str_DISK == <<"D", "I", "S", "K">>
UnknownFormatMsg ==
    <<"U","n","k","n","o","w","n"," ","d","a","t","a"," ","f","o","r","m","a","t",":"," ">>
NotValidStorageMsg ==
    <<"N","o","t"," ","a"," ","v","a","l","i","d"," ","s","t","o","r","a","g","e"," ",
      "o","p","t","i","o","n",":"," ">>

\* get_format whose match also takes a name it does not know, as CSV
get_format_defaulting(fmt) ==
    LET up == ToUpper(fmt)
    IN  CASE up = Str_AVRO -> [ok |-> TRUE, value |-> "AVRO", msg |-> <<>>]
          [] up = Str_PARQUET -> [ok |-> TRUE, value |-> "PARQUET", msg |-> <<>>]
          [] up = Str_JSON -> [ok |-> TRUE, value |-> "JSON", msg |-> <<>>]
          [] up = Str_JSONL -> [ok |-> TRUE, value |-> "JSONL", msg |-> <<>>]
          [] up = Str_NDJSON -> [ok |-> TRUE, value |-> "JSONL", msg |-> <<>>]
          [] OTHER -> [ok |-> TRUE, value |-> "CSV", msg |-> <<>>]

\* get_format
get_format(fmt) ==
    LET up == ToUpper(fmt)
    IN  CASE up = Str_CSV -> [ok |-> TRUE, value |-> "CSV", msg |-> <<>>]
          [] up = Str_AVRO -> [ok |-> TRUE, value |-> "AVRO", msg |-> <<>>]
          [] up = Str_PARQUET -> [ok |-> TRUE, value |-> "PARQUET", msg |-> <<>>]
          [] up = Str_JSON -> [ok |-> TRUE, value |-> "JSON", msg |-> <<>>]
          [] up = Str_JSONL -> [ok |-> TRUE, value |-> "JSONL", msg |-> <<>>]
          [] up = Str_NDJSON -> [ok |-> TRUE, value |-> "JSONL", msg |-> <<>>]
          [] OTHER -> [ok |-> FALSE, value |-> "none", msg |-> UnknownFormatMsg \o fmt]

\* get_storage
get_storage(storage) ==
    LET up == ToUpper(Trim(storage))
    IN  CASE up = Str_TEMP -> [ok |-> TRUE, value |-> "TEMP", msg |-> <<>>]
          [] up = Str_DISK -> [ok |-> TRUE, value |-> "DISK", msg |-> <<>>]
          [] OTHER -> [ok |-> FALSE, value |-> "none", msg |-> NotValidStorageMsg \o storage]

(* inputs and actions of the argument specification *)

ArgTexts ==
    {
      <<"n", "a", "m", "e", "=", "J", "o", "h", "n">>,
      <<"n", "a", "m", "e", "=", "J", "o">>,
      <<"a", "g", "e", "=", "'", "3", "0", "'">>,
      <<" ", "c", "i", "t", "y", " ", "=", " ", "\"", "N", "Y", "\"", " ">>,
      <<"f", "o", "o">>, <<"'", "b", "a", "r", "'">>,
      <<" ", "p", "a", "r", "a", "m", " ">>, <<>>, <<" ", " ">>,
      <<"'", "'">>, <<"=", "x">>, <<"a", "=", "b", "=", "c">>,
      <<"N", "a", "m", "e", " ", "=", " ", "x">> }
ParseArgsInputs(n) == UNION { [1..k -> ArgTexts] : k \in 0..n }

InitArgs ==
    /\ InitInfer /\ InitPlan /\ InitNoTable /\ InitCursors /\ InitReaders
    /\ InitVectorIdle /\ InitGateIdle /\ InitLateIdle
    /\ vt_args \in ParseArgsInputs(MaxArgs)
    /\ parsed_args = NoParsed
    /\ lookup = NoLookup

ParseArgs ==
    /\ ~parsed_args.done
    /\ parsed_args' = parse_args(vt_args)
    /\ UNCHANGED <<lateVars, inferVars, planVars, tableVars, cursorVars, readerVars,
                   vectorVars, gateVars, vt_args, lookup>>

NextArgs == ParseArgs
SpecArgs == InitArgs /\ [][NextArgs]_vars

----------------------------------------------------------------------------
(* Table initialisation: UrlTable::init of lib.rs. The host database holds   *)
(* at most one persisted copy of the table: a metadata table with one row,   *)
(* and a data table whose cells are read back as text.                       *)

\* join with a separator of several characters
RECURSIVE JoinWith(_, _)
JoinWith(parts, sep) ==
    IF parts = <<>> THEN <<>>
    ELSE IF Len(parts) = 1 THEN parts[1]
    ELSE parts[1] \o sep \o JoinWith(Tail(parts), sep)

\* UrlTable::trim_quotes
trim_quotes(s) ==
    LET t == Trim(s)
    IN  IF Len(t) >= 2 /\ Head(t) = "\"" /\ t[Len(t)] = "\""
        THEN SubSeq(t, 2, Len(t) - 1) ELSE t

\* the while loop splitting at every comma, quoted or not
RECURSIVE split_headers_loop_any_comma(_, _, _, _, _)
split_headers_loop_any_comma(line, i, start, in_quotes, result) ==
    IF i > Len(line)
    THEN IF start <= Len(line)
         THEN Append(result, trim_quotes(Trim(SubSeq(line, start, Len(line)))))
         ELSE result
    ELSE IF line[i] = ","
         THEN split_headers_loop_any_comma(line, i + 1, i + 1, in_quotes,
                  Append(result, trim_quotes(Trim(SubSeq(line, start, i - 1)))))
    ELSE split_headers_loop_any_comma(line, i + 1, start, in_quotes, result)

\* UrlTable::split_headers_line, the while loop; i and start count from 1
RECURSIVE split_headers_loop(_, _, _, _, _)
split_headers_loop(line, i, start, in_quotes, result) ==
    IF i > Len(line)
    THEN IF start <= Len(line)
         THEN Append(result, trim_quotes(Trim(SubSeq(line, start, Len(line)))))
         ELSE result
    ELSE IF line[i] = "\""
         THEN split_headers_loop(line, i + 1, start, ~in_quotes, result)
    ELSE IF line[i] = "," /\ ~in_quotes
         THEN split_headers_loop(line, i + 1, i + 1, in_quotes,
                  Append(result, trim_quotes(Trim(SubSeq(line, start, i - 1)))))
    ELSE split_headers_loop(line, i + 1, start, in_quotes, result)

\* UrlTable::split_headers_line
split_headers_line(line) == split_headers_loop(line, 1, 1, FALSE, <<>>)

\* init, lines 160-165: the header line stored in the metadata record
parsed_headers(names) ==
    JoinWith([j \in 1..Len(names) |-> <<"\"">> \o names[j] \o <<"\"">>], <<",", " ">>)

\* a stored cell: SQL NULL, or the text sqlite3_column_text gives for it
StoredNull == [null |-> TRUE, text |-> <<>>]
Stored(text) == [null |-> FALSE, text |-> text]

\* df_value_to_sqlite_value and the INSERT that stores it: what the data
\* table holds for one cell
df_value_to_sqlite_value(dtype, cell) ==
    IF cell.null THEN StoredNull
    ELSE CASE dtype = "String" -> Stored(cell.v)
           [] dtype = "Boolean" -> Stored(IF cell.v # 0 THEN <<"1">> ELSE <<"0">>)
           [] OTHER -> Stored(FormatInt(cell.v))

\* one row tuple of an INSERT: the values the data table gets for row k
row_values(frame, k) ==
    [j \in 1..Len(frame.names) |->
        df_value_to_sqlite_value(frame.dtypes[j], frame.rows[k][j])]

\* generate_inserts_from_dataframe that leaves out a last batch shorter than
\* batch_size
generate_inserts_full_batches(frame, batch_size) ==
    [b \in 1..(height(frame) \div batch_size) |->
        [k \in 1..batch_size |-> row_values(frame, (b - 1) * batch_size + k)]]

\* generate_inserts_from_dataframe: one statement per batch_start of
\* (0..total_rows).step_by(batch_size), each a sequence of row tuples
generate_inserts_from_dataframe(frame, batch_size) ==
    LET total_rows == height(frame)
        batch_end(b) == IF b * batch_size < total_rows THEN b * batch_size ELSE total_rows
    IN  [b \in 1..((total_rows + batch_size - 1) \div batch_size) |->
            [k \in 1..(batch_end(b) - (b - 1) * batch_size) |->
                row_values(frame, (b - 1) * batch_size + k)]]

\* the row tuples of the statements, in the order they are executed
RECURSIVE inserted_rows(_)
inserted_rows(statements) ==
    IF statements = <<>> THEN <<>>
    ELSE Head(statements) \o inserted_rows(Tail(statements))

\* init, line 167
batch_size_of_init == 1000

\* Statement::fetch(col_count) over the data table: every row as col_count
\* texts, "NULL" for a NULL cell
fetch(rows, col_count) ==
    [k \in 1..Len(rows) |->
        [j \in 1..col_count |->
            IF j > Len(rows[k]) \/ rows[k][j].null THEN <<"N", "U", "L", "L">>
            ELSE rows[k][j].text]]

NoFrame == DataFrame(<<>>, <<>>, <<>>)

\* UrlTable::dataframe_from_rows with Some(headers): a frame of String columns
dataframe_from_rows(data, hdrs) ==
    IF data = <<>> THEN [ok |-> FALSE, df |-> NoFrame]
    ELSE IF \E k \in 1..Len(data) : Len(data[k]) # Len(data[1])
         THEN [ok |-> FALSE, df |-> NoFrame]
    ELSE
        LET num_cols == Len(data[1])
            names == [i \in 1..num_cols |->
                        IF i <= Len(hdrs) THEN hdrs[i]
                        ELSE <<"c","o","l","u","m","n","_">> \o FormatNat(i - 1)]
        IN  IF \E a, b \in 1..num_cols : a # b /\ names[a] = names[b]
            THEN [ok |-> FALSE, df |-> NoFrame]
            ELSE [ok |-> TRUE,
                  df |-> DataFrame(names, [i \in 1..num_cols |-> "String"],
                                   [k \in 1..Len(data) |->
                                       [i \in 1..num_cols |-> Cell(data[k][i])]])]

\* the name the persisted metadata table gets: module_name.table_name_metadata
MetadataTable == <<"h", "t", "t", "p", "f", "s", ".", "t", "_", "m", "e", "t", "a", "d", "a", "t", "a">>

\* sqlite_master: the names of the tables the database holds
sqlite_master(database) ==
    IF database.has_metadata THEN {MetadataTable} ELSE {}

\* init, lines 65-68: the name handed to has_metadata, written with its
\* enclosing double quotes
t_name == <<"\"">> \o MetadataTable \o <<"\"">>

\* UrlTable::has_metadata: a row of sqlite_master whose name is table_name
has_metadata(database, table_name) == table_name \in sqlite_master(database)

\* init returning Err: no table; the database as the statements executed
\* before the error left it
InitErr(kind, msg, fetched, frame, database) ==
    [ok |-> FALSE, kind |-> kind, msg |-> msg, fetched |-> fetched,
     built |-> frame # NoFrame, df |-> frame, headers |-> <<>>, columns_types |-> <<>>,
     db |-> database]

\* init, lines 43-63: an argument by name, else by position (from 0)
named_or_positional(parsed, name, pos) ==
    IF Get(parsed.named, name).some THEN Get(parsed.named, name)
    ELSE IF pos + 1 <= Len(parsed.positional)
         THEN [some |-> TRUE, value |-> parsed.positional[pos + 1]]
    ELSE [some |-> FALSE, value |-> <<>>]

\* init, lines 96-122: the frame rebuilt from the persisted copy
init_from_stored(database) ==
    IF ~database.has_metadata THEN [ok |-> FALSE, kind |-> "Statement", df |-> NoFrame]
    ELSE IF database.metadata = <<>> THEN [ok |-> FALSE, kind |-> "Panic", df |-> NoFrame]
    ELSE
        LET hdrs == split_headers_line(database.metadata[1].headers)
        IN  IF ~database.has_data THEN [ok |-> FALSE, kind |-> "Statement", df |-> NoFrame]
            ELSE LET built == dataframe_from_rows(fetch(database.rows, Len(hdrs)), hdrs)
                 IN  IF built.ok THEN [ok |-> TRUE, kind |-> "none", df |-> built.df]
                     ELSE [ok |-> FALSE, kind |-> "Polars", df |-> NoFrame]

\* init, lines 131-135: the declared column types, from the frame's dtypes
init_columns_types(frame) ==
    [j \in 1..Len(frame.dtypes) |-> df_dtype_to_sqlite_dtype(frame.dtypes[j])]

\* init, lines 196-204: a text spliced between apostrophes into the INSERT of
\* the metadata record leaves a statement that prepares, for texts with at
\* most one apostrophe
sql_literal_ok(text) == \A i \in 1..Len(text) : text[i] # "'"

\* init, lines 148-212: the statements that persist the frame; each CREATE
\* fails when its table exists and the INSERT of the metadata record when it
\* does not prepare, leaving what was executed before it
init_persist(database, frame, url, format, hdrs, types) ==
    IF database.has_data THEN [ok |-> FALSE, db |-> database]
    ELSE
        LET with_data ==
                [database EXCEPT
                    !.has_data = TRUE,
                    !.columns = [j \in 1..Len(hdrs) |->
                                    [name |-> hdrs[j], type |-> types[j]]],
                    !.rows = inserted_rows(generate_inserts_from_dataframe(frame, batch_size_of_init))]
        IN  IF database.has_metadata THEN [ok |-> FALSE, db |-> with_data]
            ELSE IF ~sql_literal_ok(url) \/ ~sql_literal_ok(parsed_headers(hdrs))
                 THEN [ok |-> FALSE, db |-> [with_data EXCEPT !.has_metadata = TRUE]]
            ELSE [ok |-> TRUE,
                  db |-> [with_data EXCEPT
                            !.has_metadata = TRUE,
                            !.metadata = << [url |-> url, format |-> format,
                                             headers |-> parsed_headers(hdrs),
                                             column_types |-> types] >>]]

\* UrlTable::init; resp is what the remote answers to a GET of the url and
\* what the reader of the requested format makes of it
init(database, args, is_created, resp) ==
    LET parsed == parse_args(args)
        url == named_or_positional(parsed, <<"U", "R", "L">>, 0)
        fmt == named_or_positional(parsed, <<"F", "O", "R", "M", "A", "T">>, 1)
        sto == named_or_positional(parsed, <<"S", "T", "O", "R", "A", "G", "E">>, 2)
        format == get_format(fmt.value)
        storage == IF sto.some THEN get_storage(sto.value)
                   ELSE [ok |-> TRUE, value |-> "DISK", msg |-> <<>>]
        fetch_data == is_created /\ ~has_metadata(database, t_name)
        stored == init_from_stored(database)
        frame == IF fetch_data THEN resp.df ELSE stored.df
        hdrs == frame.names
        types == init_columns_types(frame)
        persisted == init_persist(database, frame, url.value, format.value, hdrs,
                                  types)
    IN  IF Len(args) < 2 THEN InitErr("Args", <<>>, FALSE, NoFrame, database)
        ELSE IF ~url.some THEN InitErr("NoUrl", <<>>, FALSE, NoFrame, database)
        ELSE IF ~fmt.some THEN InitErr("NoFormat", <<>>, FALSE, NoFrame, database)
        ELSE IF ~format.ok THEN InitErr("Format", format.msg, FALSE, NoFrame, database)
        ELSE IF ~storage.ok THEN InitErr("Storage", storage.msg, FALSE, NoFrame, database)
        ELSE IF fetch_data /\ ~resp.http_ok
             THEN InitErr("Http", <<>>, TRUE, NoFrame, database)
        ELSE IF fetch_data /\ ~resp.parse_ok
             THEN InitErr("Parse", <<>>, TRUE, NoFrame, database)
        ELSE IF ~fetch_data /\ ~stored.ok
             THEN InitErr(stored.kind, <<>>, FALSE, NoFrame, database)
        ELSE IF storage.value = "DISK" /\ is_created /\ ~persisted.ok
             THEN InitErr("Statement", <<>>, fetch_data, frame, persisted.db)
        ELSE [ok |-> TRUE, kind |-> "none", msg |-> <<>>, fetched |-> fetch_data,
              built |-> TRUE, df |-> frame, headers |-> hdrs,
              columns_types |-> types,
              db |-> IF storage.value = "DISK" /\ is_created THEN persisted.db
                     ELSE database]


(* inputs and actions of the initialisation specification *)

\* the argument lists of CREATE VIRTUAL TABLE ... USING httpfs(...)
GateArgs ==
    { <<<<"u">>, <<"c", "s", "v">>>>,
      <<<<"u">>, <<"C", "S", "V">>, <<"t", "e", "m", "p">>>>,
      <<<<"u">>, <<"c", "s", "v">>, <<"d", "i", "s", "k">>>>,
      <<<<"u", "r", "l", "=", "u">>, <<"f", "o", "r", "m", "a", "t", "=", "j", "s", "o", "n">>>>,
      <<<<"f", "o", "r", "m", "a", "t", "=", "a", "v", "r", "o">>, <<"u", "r", "l", "=", "u">>, <<"s", "t", "o", "r", "a", "g", "e", "=", " ", "T", "e", "m", "p", " ">>>>,
      <<<<"u">>, <<"x", "m", "l">>>>,
      <<<<"u">>, <<"c", "s", "v">>, <<"r", "a", "m">>>>,
      <<<<"u">>>>,
      <<<<"u", "r", "l", "=", "u">>, <<"s", "t", "o", "r", "a", "g", "e", "=", "t", "e", "m", "p">>>>,
      <<<<"f", "o", "r", "m", "a", "t", "=", "c", "s", "v">>, <<"s", "t", "o", "r", "a", "g", "e", "=", "t", "e", "m", "p">>>>,
      <<<<"u">>, <<"'", "p", "a", "r", "q", "u", "e", "t", "'">>>>,
      <<<<"u">>, <<"n", "d", "j", "s", "o", "n">>, <<"T", "E", "M", "P">>>>,
      <<<<"u">>, <<>>>>,
      <<<<"v">>, <<" ", "j", "s", "o", "n", "l", " ">>>>,
      <<<<"u">>, <<"f", "o", "r", "m", "a", "t", "=", "t", "s", "v">>, <<"c", "s", "v">>>>,
      <<<<"i", "'", "s">>, <<"c", "s", "v">>>> }

GateFrames ==
    { DataFrame(<<<<"i", "d">>, <<"n", "a", "m", "e">>>>, <<"Int64", "String">>,
                << <<Cell(1), Cell(<<"a">>)>>, <<NullCell, Cell(<<"b", " ", "c">>)>> >>),
      DataFrame(<<<<"a", ",", "b">>>>, <<"Boolean">>, << <<Cell(1)>> >>),
      DataFrame(<<<<"x">>>>, <<"String">>, <<>>) }

\* what the GET of the url and the reader of the format give: an HTTP or
\* read error, a parse error, or a frame
NoResponse == [http_ok |-> FALSE, parse_ok |-> FALSE, df |-> NoFrame]
GateResponses ==
    { NoResponse, [http_ok |-> TRUE, parse_ok |-> FALSE, df |-> NoFrame] }
    \cup { [http_ok |-> TRUE, parse_ok |-> TRUE, df |-> f] : f \in GateFrames }

\* the names handed to get_format and get_storage
GateNames ==
    { <<"c", "s", "v">>,
      <<"C", "S", "V">>,
      <<"C", "s", "v">>,
      <<" ", "c", "s", "v">>,
      <<"a", "v", "r", "o">>,
      <<"P", "A", "R", "Q", "U", "E", "T">>,
      <<"j", "s", "o", "n">>,
      <<"J", "s", "o", "n", "L">>,
      <<"n", "d", "j", "s", "o", "n">>,
      <<"N", "D", "J", "S", "O", "N">>,
      <<>>,
      <<"x", "m", "l">>,
      <<"c", "s", "v", "x">>,
      <<"t", "e", "m", "p">>,
      <<" ", "T", "e", "m", "p", " ">>,
      <<"D", "I", "S", "K">>,
      <<"d", "i", "s", "k", " ">>,
      <<"r", "a", "m">>,
      <<"d", "i", " ", "s", "k">> }

InitGate ==
    /\ InitInfer /\ InitPlan /\ InitNoTable /\ InitCursors /\ InitReaders
    /\ InitVectorIdle /\ InitArgsIdle /\ InitLateIdle
    /\ db = NoDb
    /\ gate = NoGate
    /\ fetches = 0

\* init, lines 50-63: the last name init hands to get_format or get_storage,
\* with what it got back; last is the value of lookup before the call
init_lookup(args, last) ==
    LET parsed == parse_args(args)
        url == named_or_positional(parsed, <<"U", "R", "L">>, 0)
        fmt == named_or_positional(parsed, <<"F", "O", "R", "M", "A", "T">>, 1)
        sto == named_or_positional(parsed, <<"S", "T", "O", "R", "A", "G", "E">>, 2)
    IN  IF Len(args) < 2 \/ ~url.some \/ ~fmt.some THEN last
        ELSE IF ~get_format(fmt.value).ok \/ ~sto.some
             THEN [done |-> TRUE, fn |-> "get_format", name |-> fmt.value,
                   res |-> get_format(fmt.value)]
        ELSE [done |-> TRUE, fn |-> "get_storage", name |-> sto.value,
              res |-> get_storage(sto.value)]

\* one call of init by the host, for create (is_created) or connect
GateCall(args, is_created, resp) ==
    LET r == init(db, args, is_created, resp)
    IN  /\ gate.n < MaxInits
        /\ lookup' = init_lookup(args, lookup)
        /\ gate' = [called |-> TRUE, n |-> gate.n + 1, is_created |-> is_created,
                    args |-> args, pre |-> db,
                    resp |-> IF r.fetched THEN resp ELSE NoResponse, res |-> r]
        /\ db' = r.db
        /\ fetches' = fetches + (IF r.fetched THEN 1 ELSE 0)
        /\ UNCHANGED <<lateVars, inferVars, planVars, tableVars, cursorVars, readerVars,
                       vectorVars, vt_args, parsed_args>>

\* VTab::create
Create == \E args \in GateArgs, resp \in GateResponses : GateCall(args, TRUE, resp)

\* VTab::connect
Connect == \E args \in GateArgs, resp \in GateResponses : GateCall(args, FALSE, resp)

\* get_format called on its own, as the tests of storage.rs call it: no
\* table has been set up
GetFormat ==
    \E name \in GateNames :
        /\ ~gate.called
        /\ lookup' = [done |-> TRUE, fn |-> "get_format", name |-> name,
                      res |-> get_format(name)]
        /\ UNCHANGED <<lateVars, inferVars, planVars, tableVars, cursorVars, readerVars,
                       vectorVars, gateVars, vt_args, parsed_args>>

\* get_storage called on its own, as test_get_storage_* do
GetStorage ==
    \E name \in GateNames :
        /\ ~gate.called
        /\ lookup' = [done |-> TRUE, fn |-> "get_storage", name |-> name,
                      res |-> get_storage(name)]
        /\ UNCHANGED <<lateVars, inferVars, planVars, tableVars, cursorVars, readerVars,
                       vectorVars, gateVars, vt_args, parsed_args>>

NextGate == Create \/ Connect \/ GetFormat \/ GetStorage
SpecGate == InitGate /\ [][NextGate]_vars

----------------------------------------------------------------------------
(* The row-vector table: vector_impl.rs. Cells are texts; a filter compares  *)
(* a cell with the runtime value as numbers when both parse as f64, as texts *)
(* otherwise.                                                                *)

\* the characters of the model in code point order: str comparison is bytewise
AsciiChars == <<"\t", "\n", "\r", " ", "\"", "'", "+", ",", "-", ".",
                "0", "1", "2", "3", "4", "5", "6", "7", "8", "9", "=">>
              \o UpperChars \o <<"[", "]", "_">> \o LowerChars
AsciiOf(c) == CHOOSE i \in 1..Len(AsciiChars) : AsciiChars[i] = c

\* Ord for str: s < t
RECURSIVE StrLess(_, _)
StrLess(s, t) ==
    IF t = <<>> THEN FALSE
    ELSE IF s = <<>> THEN TRUE
    ELSE IF Head(s) = Head(t) THEN StrLess(Tail(s), Tail(t))
    ELSE AsciiOf(Head(s)) < AsciiOf(Head(t))

\* an f64 held as its Display text
F64IsNan(d) == d = <<"N", "a", "N">>
F64Neg(d) == Head(d) = "-" /\ Unsigned(d) # <<"0">>
F64Mag(d) == Unsigned(d)
F64Int(m) == IF FirstIndex(m, {"."}) = 0 THEN m ELSE SubSeq(m, 1, FirstIndex(m, {"."}) - 1)
F64Frac(m) ==
    IF FirstIndex(m, {"."}) = 0 THEN <<>> ELSE SubSeq(m, FirstIndex(m, {"."}) + 1, Len(m))

\* x < y for two magnitudes
MagLess(x, y) ==
    LET inf == <<"i", "n", "f">>
        fx == F64Frac(x) \o Zeros(Len(F64Frac(y)) - Len(F64Frac(x)))
        fy == F64Frac(y) \o Zeros(Len(F64Frac(x)) - Len(F64Frac(y)))
        dx == F64Int(x) \o fx
        dy == F64Int(y) \o fy
    IN  IF x = inf THEN FALSE
        ELSE IF y = inf THEN TRUE
        ELSE IF Len(F64Int(x)) # Len(F64Int(y)) THEN Len(F64Int(x)) < Len(F64Int(y))
        ELSE dx # dy /\ DigitsLeq(dx, dy)

\* PartialEq and PartialOrd for f64; every comparison with a NaN is false
F64Eq(c, f) ==
    /\ ~F64IsNan(c) /\ ~F64IsNan(f)
    /\ F64Neg(c) = F64Neg(f) /\ F64Mag(c) = F64Mag(f)
F64Lt(c, f) ==
    /\ ~F64IsNan(c) /\ ~F64IsNan(f)
    /\ IF F64Neg(c) # F64Neg(f) THEN F64Neg(c)
       ELSE IF F64Neg(c) THEN MagLess(F64Mag(f), F64Mag(c))
       ELSE MagLess(F64Mag(c), F64Mag(f))

\* connect, the CSV arm (lines 99-119) and the result (lines 198-206): one
\* row per record, every cell trimmed
vector_connect(data) ==
    [headers |-> data.header,
     rows |-> [k \in 1..Len(data.records) |->
                 [j \in 1..Len(data.records[k]) |-> Trim(data.records[k][j])]]]

\* best_index of vector_impl.rs: the loop and the token are those of lib.rs
vector_best_index(constraints) == best_index(constraints)

\* UrlCursor::new
vector_open(vtab_rows) == [open |-> TRUE, row_idx |-> 0, filtered_rows |-> vtab_rows]

\* filter, lines 282-293: the (column, operator) pairs of the entries whose
\* column text parses; the operator is "=" or empty
RECURSIVE vector_col_ops(_)
vector_col_ops(parts) ==
    IF parts = <<>> THEN <<>>
    ELSE
        LET part == Head(parts)
            ends_eq == part # <<>> /\ part[Len(part)] = "="
            col_str == IF ends_eq THEN SubSeq(part, 1, Len(part) - 1) ELSE part
            op == IF ends_eq THEN <<"=">> ELSE <<>>
        IN  (IF ParseUsizeOk(col_str)
             THEN << [col_idx |-> ParseUsize(col_str), op |-> op] >> ELSE <<>>)
            \o vector_col_ops(Tail(parts))

\* the comparison of filter with the numeric branch never taken
vector_comparison_text_only(op, cell_value, filter_text) ==
    CASE op = <<"=">> -> cell_value = filter_text
      [] op = <<">">> -> StrLess(filter_text, cell_value)
      [] op = <<"<">> -> StrLess(cell_value, filter_text)
      [] op = <<">", "=">> -> ~StrLess(cell_value, filter_text)
      [] op = <<"<", "=">> -> ~StrLess(filter_text, cell_value)
      [] op = <<"!">> -> cell_value # filter_text
      [] OTHER -> FALSE

\* filter, lines 303-331: `comparison` for one cell, already trimmed
vector_comparison(op, cell_value, filter_text) ==
    IF ParseF64Ok(cell_value) /\ ParseF64Ok(filter_text)
    THEN LET c == FormatF64(cell_value)
             f == FormatF64(filter_text)
         IN  CASE op = <<"=">> -> F64Eq(c, f)
               [] op = <<">">> -> F64Lt(f, c)
               [] op = <<"<">> -> F64Lt(c, f)
               [] op = <<">", "=">> -> F64Lt(f, c) \/ F64Eq(c, f)
               [] op = <<"<", "=">> -> F64Lt(c, f) \/ F64Eq(c, f)
               [] op = <<"!">> -> ~F64Eq(c, f)
               [] OTHER -> FALSE
    ELSE CASE op = <<"=">> -> cell_value = filter_text
           [] op = <<">">> -> StrLess(filter_text, cell_value)
           [] op = <<"<">> -> StrLess(cell_value, filter_text)
           [] op = <<">", "=">> -> ~StrLess(cell_value, filter_text)
           [] op = <<"<", "=">> -> ~StrLess(filter_text, cell_value)
           [] op = <<"!">> -> cell_value # filter_text
           [] OTHER -> FALSE

\* filter, lines 295-336: the loop over col_ops, each pass keeping the rows
\* whose cell compares true with args[i]
RECURSIVE vector_apply(_, _, _, _)
vector_apply(rows, col_ops, i, args) ==
    IF i > Len(col_ops) THEN rows
    ELSE
        LET keep(row) == vector_comparison(col_ops[i].op,
                                           Trim(row[col_ops[i].col_idx + 1]), args[i])
        IN  vector_apply(SelectSeq(rows, keep), col_ops, i + 1, args)

\* UrlCursor::filter of vector_impl.rs
vector_filter(self, vtab_rows, idx_str, args) ==
    [open |-> TRUE,
     row_idx |-> 0,
     filtered_rows |->
        IF args # <<>>
        THEN vector_apply(vtab_rows, vector_col_ops(Split(idx_str, ",")), 1, args)
        ELSE vtab_rows]

\* UrlCursor::next of vector_impl.rs
vector_next(self) == [self EXCEPT !.row_idx = self.row_idx + 1]

\* UrlCursor::eof of vector_impl.rs
vector_eof(self) == self.row_idx >= Len(self.filtered_rows)

(* inputs of the row-vector specification *)

VectorCells ==
    { <<"7">>, <<"7", ".", "0">>, <<" ", "7", " ">>, <<"0", "7">>, <<"7", "e", "0">>,
      <<"7", "0">>, <<"-", "7">>, <<"6", ".", "9">>, <<"x">>, <<"7", "x">>, <<>> }
VectorRows ==
    { <<c, <<"1">>>> : c \in VectorCells } \cup { << <<"7">>, <<"b">> >> }
VectorPayloads ==
    { [kind |-> "csv", header |-> << <<"a">>, <<"b">> >>, records |-> r] :
        r \in UNION { [1..k -> VectorRows] : k \in 0..MaxRows } }
VectorPlans ==
    { <<Con(0, "EQ", TRUE)>>, <<Con(0, "GT", TRUE)>>, <<Con(0, "EQ", FALSE)>>,
      <<Con(0, "EQ", TRUE), Con(1, "EQ", TRUE)>>,
      <<Con(0, "LIKE", TRUE), Con(1, "EQ", TRUE)>>,
      <<Con(0, "GT", TRUE), Con(1, "EQ", TRUE)>> }
VectorArgs == { <<"7">>, <<"7", ".", "0", "0">>, <<" ", "7">>, <<"x">>, <<"1">> }
VectorArgLists(n) == [1..n -> VectorArgs]

(* actions of the row-vector specification *)

InitVector ==
    /\ InitInfer /\ InitPlan /\ InitNoTable /\ InitCursors
    /\ payload \in VectorPayloads
    /\ budget = 0 /\ reader = NoReader /\ iters = <<>> /\ yielded = <<>>
    /\ vtab = NoVTab /\ vcursor = NoVCursor /\ vcall = NoVCall
    /\ InitGateIdle /\ InitArgsIdle /\ InitLateIdle

VectorConnect ==
    /\ vtab = NoVTab
    /\ vtab' = vector_connect(payload)
    /\ UNCHANGED <<lateVars, inferVars, planVars, tableVars, cursorVars, readerVars,
                   vcursor, vcall, gateVars, argsVars>>

VectorOpen ==
    /\ vtab # NoVTab /\ ~vcursor.open
    /\ vcursor' = vector_open(vtab.rows)
    /\ UNCHANGED <<lateVars, inferVars, planVars, tableVars, cursorVars, readerVars,
                   vtab, vcall, gateVars, argsVars>>

\* the host plans a statement with best_index and calls filter with the
\* token and one runtime value per used constraint
VectorFilter ==
    /\ vcursor.open /\ ~vcall.filtered
    /\ \E constraints \in VectorPlans :
        LET plan == vector_best_index(constraints)
        IN  \E args \in VectorArgLists(plan.idxnum) :
                /\ vcursor' = vector_filter(vcursor, vtab.rows, plan.idxstr, args)
                /\ vcall' = [filtered |-> TRUE, constraints |-> constraints,
                             idx_str |-> plan.idxstr, args |-> args]
    /\ UNCHANGED <<lateVars, inferVars, planVars, tableVars, cursorVars, readerVars,
                   vtab, gateVars, argsVars>>

VectorNext ==
    /\ vcursor.open /\ vcall.filtered /\ ~vector_eof(vcursor)
    /\ vcursor' = vector_next(vcursor)
    /\ UNCHANGED <<lateVars, inferVars, planVars, tableVars, cursorVars, readerVars,
                   vtab, vcall, gateVars, argsVars>>

NextVector == VectorConnect \/ VectorOpen \/ VectorFilter \/ VectorNext
SpecVector == InitVector /\ [][NextVector]_vars

----------------------------------------------------------------------------
(* The frame reader for Avro: avro.rs. finish collects the fields of every   *)
(* decoded record into a HashMap from field name to values, and builds the   *)
(* frame from the map's entries in the order the map iterates them.          *)

\* polars AnyValue: its data type, and the value as text
AnyValue(dtype, text) == [dtype |-> dtype, text |-> text]
AnyNull == [dtype |-> "Null", text |-> <<>>]

\* format!("{:?}", ..) of a nested value
DebugText(value) ==
    CASE value.tag = "Array" -> <<"[", "]">>
      [] value.tag = "Map" -> <<"{", "}">>
      [] OTHER -> <<"[", "(", ")", "]">>

\* AvroReader::map_value_to_any. A Date of negative days is cast to u64 and
\* overflows checked_add_days, which gives Null.
RECURSIVE map_value_to_any(_)
map_value_to_any(value) ==
    CASE value.tag \in {"String", "Uuid", "Enum", "Decimal", "Duration"} ->
             AnyValue("String", value.text)
      [] value.tag \in {"Int", "TimeMillis"} -> AnyValue("Int32", value.text)
      [] value.tag \in {"Long", "TimeMicros"} -> AnyValue("Int64", value.text)
      [] value.tag = "Float" -> AnyValue("Float32", value.text)
      [] value.tag = "Double" -> AnyValue("Float64", value.text)
      [] value.tag = "Boolean" -> AnyValue("Boolean", value.text)
      [] value.tag = "Null" -> AnyNull
      [] value.tag \in {"Bytes", "Fixed"} -> AnyValue("Binary", value.text)
      [] value.tag = "Date" ->
             IF Head(value.text) = "-" THEN AnyNull ELSE AnyValue("Date", value.text)
      [] value.tag \in {"TimestampMillis", "TimestampMicros"} ->
             AnyValue("Datetime", value.text)
      [] value.tag = "Union" -> map_value_to_any(value.inner)
      [] OTHER -> AnyValue("String", DebugText(value))

\* finish, lines 19-30: col_data after the records; a value that is no
\* record adds nothing
RECURSIVE col_data_after(_, _)
col_data_after(records, col_data) ==
    IF records = <<>> THEN col_data
    ELSE
        LET value == Head(records)
            keys == IF value.tag = "Record"
                    THEN {value.fields[j].name : j \in 1..Len(value.fields)} ELSE {}
            named(k) == SelectSeq(value.fields, LAMBDA f : f.name = k)
            pushed(k) ==
                (IF k \in DOMAIN col_data THEN col_data[k] ELSE <<>>)
                \o [j \in 1..Len(named(k)) |-> map_value_to_any(named(k)[j].value)]
        IN  col_data_after(Tail(records),
                [k \in DOMAIN col_data \cup keys |->
                    IF k \in keys THEN pushed(k) ELSE col_data[k]])

\* Series::new over AnyValues: the data type of the values that are not null
series_dtype(values) ==
    LET kinds == {values[i].dtype : i \in 1..Len(values)} \ {"Null"}
    IN  IF kinds = {} THEN "Null" ELSE CHOOSE d \in kinds : TRUE

\* the orders a HashMap may iterate its keys in
IterationOrders(keys) ==
    {o \in [1..Cardinality(keys) -> keys] : \A a, b \in DOMAIN o : a # b => o[a] # o[b]}

FinishPanic == [done |-> TRUE, outcome |-> "panic", df |-> DataFrame(<<>>, <<>>, <<>>)]
FinishErr == [done |-> TRUE, outcome |-> "err", df |-> DataFrame(<<>>, <<>>, <<>>)]

\* AvroReader::finish; order is the order in which col_data.into_iter()
\* yields the columns
avro_finish(data, order) ==
    IF ~data.framed THEN FinishPanic
    ELSE IF \E i \in 1..Len(data.items) : ~data.items[i].ok THEN FinishPanic
    ELSE
        LET col_data == col_data_after([i \in 1..Len(data.items) |-> data.items[i].value],
                                       <<>>)
            mixed(k) == Cardinality({col_data[k][i].dtype : i \in 1..Len(col_data[k])}
                                    \ {"Null"}) > 1
            rows == IF Len(order) = 0 THEN 0 ELSE Len(col_data[order[1]])
        IN  IF \E k \in DOMAIN col_data : mixed(k) THEN FinishPanic
            ELSE IF \E k \in DOMAIN col_data : Len(col_data[k]) # rows THEN FinishErr
            ELSE [done |-> TRUE, outcome |-> "ok",
                  df |-> DataFrame(order,
                            [j \in 1..Len(order) |-> series_dtype(col_data[order[j]])],
                            [i \in 1..rows |->
                                [j \in 1..Len(order) |->
                                    IF col_data[order[j]][i].dtype = "Null" THEN NullCell
                                    ELSE Cell(col_data[order[j]][i].text)]])]

\* the field names col_data ends up with
avro_finish_keys(data) ==
    UNION { IF data.items[i].ok /\ data.items[i].value.tag = "Record"
            THEN {data.items[i].value.fields[j].name :
                     j \in 1..Len(data.items[i].value.fields)}
            ELSE {} : i \in 1..Len(data.items) }

(* inputs and actions of the Avro frame specification *)

FinishValues ==
    { AvroRecord(<<AvroField("id", AvroScalar("Int", <<"1">>)),
                   AvroField("name", AvroScalar("String", <<"B", "o", "b">>))>>),
      AvroRecord(<<AvroField("id", AvroScalar("Int", <<"2">>)),
                   AvroField("name", AvroUnion(AvroNull))>>),
      AvroRecord(<<AvroField("id", AvroScalar("Int", <<"3">>)),
                   AvroField("name", AvroUnion(AvroScalar("String", <<"C">>)))>>),
      AvroRecord(<<AvroField("id", AvroScalar("Int", <<"4">>)),
                   AvroField("name", AvroArray)>>),
      AvroRecord(<<AvroField("id", AvroScalar("Int", <<"5">>))>>),
      AvroRecord(<<AvroField("day", AvroScalar("Date", <<"-", "1">>)),
                   AvroField("id", AvroScalar("Int", <<"6">>))>>),
      AvroRecord(<<AvroField("day", AvroScalar("Date", <<"3">>)),
                   AvroField("id", AvroScalar("Int", <<"7">>))>>),
      AvroScalar("Int", <<"8">>) }
FinishItems == { [ok |-> TRUE, value |-> v] : v \in FinishValues }
                   \cup { [ok |-> FALSE, value |-> AvroNull] }
FinishPayloads ==
    { [kind |-> "avro", framed |-> TRUE, items |-> r] :
        r \in UNION { [1..k -> FinishItems] : k \in 0..MaxRows } }
    \cup { [kind |-> "avro", framed |-> FALSE, items |-> <<>>] }

InitFinish ==
    /\ InitInfer /\ InitPlan /\ InitNoTable /\ InitCursors
    /\ InitVectorIdle /\ InitGateIdle /\ InitArgsIdle
    /\ payload \in FinishPayloads
    /\ budget = 0 /\ reader = NoReader /\ iters = <<>> /\ yielded = <<>>
    /\ avro_out = NoOutcome /\ inserts = NoOutcome /\ header_trip = NoOutcome
    /\ stmts = <<>>

\* AvroReader::new(resp).finish(), once over the payload
Finish ==
    /\ ~avro_out.done
    /\ \E order \in IterationOrders(avro_finish_keys(payload)) :
           avro_out' = avro_finish(payload, order)
    /\ UNCHANGED <<inferVars, planVars, tableVars, cursorVars, readerVars,
                   vectorVars, gateVars, argsVars, inserts, header_trip, stmts>>

NextFinish == Finish
SpecFinish == InitFinish /\ [][NextFinish]_vars

----------------------------------------------------------------------------
(* Batched inserts: generate_inserts_from_dataframe of storage.rs, over     *)
(* one-column frames and small batch sizes.                                  *)

\* frames of one Int64 column whose row k holds k or null
InsertFrames ==
    { DataFrame(<<"n">>, <<"Int64">>, [k \in 1..n |-> <<IF k \in nulls THEN NullCell ELSE Cell(k)>>]) :
        n \in 0..MaxTableRows, nulls \in SUBSET (1..MaxTableRows) }

InitInserts ==
    /\ InitInfer /\ InitPlan /\ InitNoTable /\ InitCursors /\ InitReaders
    /\ InitVectorIdle /\ InitGateIdle /\ InitArgsIdle
    /\ avro_out = NoOutcome /\ header_trip = NoOutcome /\ stmts = <<>>
    /\ \E frame \in InsertFrames, batch_size \in 1..MaxBatch :
           inserts = [done |-> FALSE, df |-> frame, batch_size |-> batch_size]

GenerateInserts ==
    /\ ~inserts.done
    /\ inserts' = [done |-> TRUE, df |-> inserts.df, batch_size |-> inserts.batch_size,
                   statements |-> generate_inserts_from_dataframe(inserts.df,
                                                                  inserts.batch_size)]
    /\ UNCHANGED <<inferVars, planVars, tableVars, cursorVars, readerVars,
                   vectorVars, gateVars, argsVars, avro_out, header_trip, stmts>>

NextInserts == GenerateInserts
SpecInserts == InitInserts /\ [][NextInserts]_vars

----------------------------------------------------------------------------
(* The stored header line: written by init, read back by split_headers_line *)

HeaderNames ==
    { <<"a">>,
      <<"b", " ", "c">>,
      <<"a", ",", "b">>,
      <<>>,
      <<" ">>,
      <<",">>,
      <<"a", "\"", "b">>,
      <<"\"">>,
      <<" ", "a", " ">>,
      <<"x">> }

InitHeaders ==
    /\ InitInfer /\ InitPlan /\ InitNoTable /\ InitCursors /\ InitReaders
    /\ InitVectorIdle /\ InitGateIdle /\ InitArgsIdle
    /\ avro_out = NoOutcome /\ inserts = NoOutcome /\ stmts = <<>>
    /\ \E names \in UNION { [1..k -> HeaderNames] : k \in 0..MaxNames } :
           header_trip = [done |-> FALSE, names |-> names]

\* the header line is stored by a create and split by a later connect
SplitHeaders ==
    /\ ~header_trip.done
    /\ header_trip' = [done |-> TRUE, names |-> header_trip.names,
                       line |-> parsed_headers(header_trip.names),
                       split |-> split_headers_line(parsed_headers(header_trip.names))]
    /\ UNCHANGED <<inferVars, planVars, tableVars, cursorVars, readerVars,
                   vectorVars, gateVars, argsVars, avro_out, inserts, stmts>>

NextHeaders == SplitHeaders
SpecHeaders == InitHeaders /\ [][NextHeaders]_vars

----------------------------------------------------------------------------
(* Prepared statements: Statement of storage.rs. A Statement owns the raw    *)
(* handle; `owned` says that some caller still holds the value, `finalized`  *)
(* is its field, raw_finalized counts the sqlite3_finalize calls made on     *)
(* the handle.                                                               *)

SQLITE_OK == 0
SQLITE_ERROR == 1
SQLITE_ROW == 100
SQLITE_DONE == 101

\* Statement::build returning Ok
statement_build ==
    [owned |-> TRUE, finalized |-> FALSE, raw_finalized |-> 0, last |-> "build"]

\* Drop for Statement: the value goes out of scope
statement_drop(self, how) ==
    IF ~self.finalized
    THEN [owned |-> FALSE, finalized |-> TRUE,
          raw_finalized |-> self.raw_finalized + 1, last |-> how]
    ELSE [self EXCEPT !.owned = FALSE, !.last = how]

\* Statement::execute whose error path lets go of self without dropping it
statement_execute_leaking(self, rc) ==
    IF rc # SQLITE_DONE /\ rc # SQLITE_ROW
    THEN [self EXCEPT !.owned = FALSE, !.last = "execute_err"]
    ELSE [self EXCEPT !.last = "execute_ok"]

\* Statement::execute: Err drops self at the end of the call, Ok hands it back
statement_execute(self, rc) ==
    IF rc # SQLITE_DONE /\ rc # SQLITE_ROW
    THEN statement_drop(self, "execute_err")
    ELSE [self EXCEPT !.last = "execute_ok"]

\* Statement::fetch: self is dropped when the call returns, Ok or Err; rc is
\* the code of the step that ends the loop
statement_fetch(self, rc) ==
    statement_drop(self, IF rc = SQLITE_DONE THEN "fetch_ok" ELSE "fetch_err")

\* Statement::finalize: finalizes the handle and forgets self, so that Drop
\* does not run; rc is what sqlite3_finalize returns
statement_finalize(self, rc) ==
    IF self.finalized THEN statement_drop(self, "finalize_ok")
    ELSE [owned |-> FALSE, finalized |-> TRUE,
          raw_finalized |-> self.raw_finalized + 1,
          last |-> IF rc # SQLITE_OK THEN "finalize_err" ELSE "finalize_ok"]

(* actions of the statement specification *)

InitStatements ==
    /\ InitInfer /\ InitPlan /\ InitNoTable /\ InitCursors /\ InitReaders
    /\ InitVectorIdle /\ InitGateIdle /\ InitArgsIdle
    /\ avro_out = NoOutcome /\ inserts = NoOutcome /\ header_trip = NoOutcome
    /\ stmts = <<>>

StatementFrame ==
    UNCHANGED <<inferVars, planVars, tableVars, cursorVars, readerVars,
                vectorVars, gateVars, argsVars, avro_out, inserts, header_trip>>

\* Statement::build; a prepare that fails returns no Statement
StatementBuild ==
    /\ Len(stmts) < MaxStatements
    /\ \E rc \in {SQLITE_OK, SQLITE_ERROR} :
           stmts' = IF rc # SQLITE_OK THEN stmts ELSE Append(stmts, statement_build)
    /\ StatementFrame

StatementExecute ==
    /\ \E i \in 1..Len(stmts), rc \in {SQLITE_DONE, SQLITE_ROW, SQLITE_ERROR} :
           /\ stmts[i].owned
           /\ stmts' = [stmts EXCEPT ![i] = statement_execute(stmts[i], rc)]
    /\ StatementFrame

StatementFetch ==
    /\ \E i \in 1..Len(stmts), rc \in {SQLITE_DONE, SQLITE_ERROR} :
           /\ stmts[i].owned
           /\ stmts' = [stmts EXCEPT ![i] = statement_fetch(stmts[i], rc)]
    /\ StatementFrame

StatementFinalize ==
    /\ \E i \in 1..Len(stmts), rc \in {SQLITE_OK, SQLITE_ERROR} :
           /\ stmts[i].owned
           /\ stmts' = [stmts EXCEPT ![i] = statement_finalize(stmts[i], rc)]
    /\ StatementFrame

\* the holder lets the Statement go out of scope without finalize
StatementDrop ==
    /\ \E i \in 1..Len(stmts) :
           /\ stmts[i].owned
           /\ stmts' = [stmts EXCEPT ![i] = statement_drop(stmts[i], "drop")]
    /\ StatementFrame

NextStatements ==
    StatementBuild \/ StatementExecute \/ StatementFetch \/ StatementFinalize
    \/ StatementDrop
SpecStatements == InitStatements /\ [][NextStatements]_vars

----------------------------------------------------------------------------
(* Claims about the virtual table *)

CompareOp(op, a, b) ==
    CASE op = "EQ" -> a = b
      [] op = "GT" -> a > b
      [] op = "LT" -> a < b
      [] op = "GE" -> a >= b
      [] op = "LE" -> a <= b
      [] op = "NE" -> a # b

\* the row satisfies the planner's constraint for the given runtime value,
\* evaluated on the value the host reads from the cell (NULL satisfies nothing)
Satisfies(row, con, arg) ==
    ~row[con.column + 1].null /\ CompareOp(con.op, row[con.column + 1].v, arg)

\* the rows of the base table that satisfy every constraint holding a slot
DirectRows(call) ==
    LET cs == call.plan.constraints
        ok(row) == \A i \in 1..Len(cs) :
                      call.plan.argv[i] > 0 =>
                          Satisfies(row, cs[i], call.args[call.plan.argv[i]])
    IN  SelectSeq(df.rows, ok)

\* C1: after filter(token of best_index, arguments in slot order) the cursor
\* holds exactly the base-table rows that satisfy the conjunction of all the
\* constraints that received a slot.
FilterRoundTrip ==
    \A c \in 1..Len(cursors) :
        calls[c].filtered => cursors[c].filtered_df.rows = DirectRows(calls[c])

\* C2: after a successful filter rowid is 0, after k further next calls it is
\* k, and eof holds exactly when the number of next calls since the filter has
\* reached the height of the filtered view (and so stays true until the next
\* filter).
RowidRebased ==
    \A c \in 1..Len(cursors) :
        calls[c].filtered =>
            /\ rowid(cursors[c]) = calls[c].nexts
            /\ eof(cursors[c]) <=> calls[c].nexts >= height(cursors[c].filtered_df)

\* a filtered, non-empty view iterated to its end: eof has just become true
RowidRebasedWitness ==
    \E c \in 1..Len(cursors) :
        /\ calls[c].filtered
        /\ height(cursors[c].filtered_df) >= 1
        /\ calls[c].nexts = height(cursors[c].filtered_df)
        /\ eof(cursors[c])
        /\ height(cursors[c].filtered_df) < height(df)

Eligible(con) == con.usable /\ con.op \in ComparisonOps
SlotsUpTo(cs, i) == Cardinality({j \in 1..i : Eligible(cs[j])})
OpSymbol(op) ==
    CASE op = "EQ" -> <<"=">>
      [] op = "GT" -> <<">">>
      [] op = "LT" -> <<"<">>
      [] op = "GE" -> <<">", "=">>
      [] op = "LE" -> <<"<", "=">>
      [] op = "NE" -> <<"!", "=">>

\* C3: best_index gives slots 1..n, in the order encountered and without gaps,
\* to exactly the usable constraints that carry a comparison operator; every
\* other constraint gets no slot; idxnum is n and the token has exactly n
\* comma-separated entries, entry k being column index and operator of the
\* constraint holding slot k.
PlanSlots ==
    idx.planned =>
        LET cs == idx.constraints
            n  == SlotsUpTo(cs, Len(cs))
            entries == Split(idx.idxstr, ",")
        IN  /\ Len(idx.argv) = Len(cs)
            /\ \A i \in 1..Len(cs) :
                  idx.argv[i] = IF Eligible(cs[i]) THEN SlotsUpTo(cs, i) ELSE 0
            /\ idx.idxnum = n
            /\ n = 0 => idx.idxstr = <<>>
            /\ n > 0 =>
                  /\ Len(entries) = n
                  /\ \A i \in 1..Len(cs) :
                        Eligible(cs[i]) =>
                            entries[SlotsUpTo(cs, i)] =
                                FormatInt(cs[i].column) \o OpSymbol(cs[i].op)

\* a constraint that is skipped, followed by one that takes slot 1
PlanSlotsWitness ==
    /\ idx.planned
    /\ \E i, j \in 1..Len(idx.constraints) :
          /\ i < j
          /\ ~Eligible(idx.constraints[i])
          /\ idx.argv[j] = 1
          /\ idx.idxnum = 1

\* C4: no cursor operation changes the table's base data, headers or column
\* types, and the view of every filtered cursor is the one computed from the
\* base table with the token and arguments of its last filter call alone, so
\* two cursors filtered with the same token and arguments hold the same view.
ViewFromBase ==
    /\ \A c \in 1..Len(cursors) :
          calls[c].filtered =>
              cursors[c].filtered_df.rows
                  = collect(df, df, headers, calls[c].plan.idxstr, calls[c].args).rows
    /\ \A c, d \in 1..Len(cursors) :
          /\ calls[c].filtered /\ calls[d].filtered
          /\ calls[c].plan.idxstr = calls[d].plan.idxstr
          /\ calls[c].args = calls[d].args
          => cursors[c].filtered_df = cursors[d].filtered_df
BaseTableUntouched ==
    [][df' = df /\ headers' = headers /\ columns_types' = columns_types]_vars
    /\ []ViewFromBase

\* two cursors filtered to different views, one of them advanced, and a view
\* that is wider than another cursor's
BaseTableUntouchedWitness ==
    \E c, d \in 1..Len(cursors) :
        /\ calls[c].filtered /\ calls[d].filtered
        /\ cursors[c].row_idx > 0
        /\ height(cursors[c].filtered_df) > height(cursors[d].filtered_df)
        /\ calls[c].args # calls[d].args

----------------------------------------------------------------------------
(* Claims about type inference *)

Rank(t) ==
    CASE t = "Null" -> 0 [] t = "Bool" -> 1 [] t = "Int" -> 2
      [] t = "Float" -> 3 [] t = "String" -> 4
Blank(s) == \A i \in 1..Len(s) : IsSpace(s[i])
SeenRanks == { Rank(classify(Trim(seen[i]))) : i \in {j \in 1..Len(seen) : ~Blank(seen[j])} }

\* C5: after any sequence of updates from Null the accumulator is the greatest,
\* in Null < Boolean < Integer < Float < Text, of the classifications of the
\* non-blank samples seen (Null when all were blank), whatever their order;
\* "42", "3.14", "true", "hello" give Text.
LeastUpperBound ==
    /\ \A r \in SeenRanks : r <= Rank(acc)
    /\ Rank(acc) \in SeenRanks \cup {0}
    /\ SeenRanks = {} => acc = "Null"
    /\ seen = <<S42, S3_14, STrue, SHello>> => acc = "String"

\* a Boolean sample and an Integer sample in both orders around a blank one
LeastUpperBoundWitness ==
    /\ Len(seen) = 3
    /\ seen[1] = STrue /\ seen[2] = SBlank /\ seen[3] = S42
    /\ acc = "Int"

ChainMoves ==
    { <<"Null", "Int">>, <<"Null", "Float">>, <<"Null", "String">>, <<"Null", "Bool">>,
      <<"Int", "Float">>, <<"Int", "String">>, <<"Float", "String">>,
      <<"Bool", "String">> }

\* C6 as stated: Text is final, and the accumulator moves only along
\* Null -> Integer -> Float -> Text and Null -> Boolean -> Text, so Boolean
\* changes only to Text.
PromotionChains ==
    [][/\ acc = "String" => acc' = "String"
       /\ acc' # acc => <<acc, acc'>> \in ChainMoves]_vars

\* C6 amended: Text is final, and the accumulator only moves upward in the
\* single order Null -> Boolean -> Integer -> Float -> Text; Boolean can change
\* to Integer, Float or Text.
PromotionMonotone ==
    [][/\ acc = "String" => acc' = "String"
       /\ Rank(acc') >= Rank(acc)]_vars

\* an accumulator that went from Boolean to Integer and then to Float
PromotionMonotoneWitness ==
    /\ Len(seen) = 3
    /\ seen[1] = STrue /\ seen[2] = S42 /\ seen[3] = S3_14
    /\ acc = "Float"

IsBoolText(val) == ToLower(val) \in { <<"t","r","u","e">>, <<"f","a","l","s","e">> }

\* C7: a non-blank trimmed sample is Boolean when it is "true"/"false" in any
\* letter case, else Integer when it parses as i64, else Float when it parses
\* as f64, else Text; a digit string overflowing 64 bits is not Integer; a
\* blank sample leaves Null; update always yields a type.
ClassifyRules ==
    Len(seen) = 1 =>
        LET val == Trim(seen[1])
        IN  /\ acc \in InferredType
            /\ val = <<>> => acc = "Null"
            /\ val # <<>> /\ IsBoolText(val) => acc = "Bool"
            /\ val # <<>> /\ ~IsBoolText(val) /\ ParseI64Ok(val) => acc = "Int"
            /\ val # <<>> /\ ~IsBoolText(val) /\ ~ParseI64Ok(val) /\ ParseF64Ok(val)
                  => acc = "Float"
            /\ val # <<>> /\ ~IsBoolText(val) /\ ~ParseI64Ok(val) /\ ~ParseF64Ok(val)
                  => acc = "String"
            /\ AllDigits(val) /\ Len(StripZeros(val)) > 19 => acc = "Float"
            /\ seen[1] = SMaxPlusOne => acc = "Float"
            /\ seen[1] = I64MaxDigits => acc = "Int"
            /\ seen[1] = <<"T", "R", "U", "E">> => acc = "Bool"
            /\ seen[1] = SHello => acc = "String"

\* the digit string 2^63, one past the largest i64, classified as Float
ClassifyRulesWitness ==
    Len(seen) = 1 /\ seen[1] = SMaxPlusOne /\ acc = "Float"

----------------------------------------------------------------------------
(* Claims about the readers *)

TypeOfRank(r) == CHOOSE t \in InferredType : Rank(t) = r
MaxOf(ranks) == CHOOSE r \in ranks : \A q \in ranks : q <= r
Smaller(a, b) == IF a <= b THEN a ELSE b

\* the records schema discovery has consumed
Sampled == SubSeq(payload.records, 1, reader.total_rows)
ColumnRanks(j) ==
    { Rank(classify(Trim(Sampled[k][j]))) :
        k \in {i \in 1..Len(Sampled) : ~Blank(Sampled[i][j])} }

\* C8: after CsvReader::try_new succeeds the schema has one field per header
\* column, in header order; the dtype of column j is the finalized accumulator
\* of the non-blank sampled values of column j, and nullable is true exactly
\* when some sampled row has a blank value in column j.
SchemaFromSamples ==
    reader.ok /\ reader.kind = "csv" =>
        /\ Len(reader.schema) = Len(payload.header)
        /\ \A j \in 1..Len(reader.schema) :
            /\ reader.schema[j].name = payload.header[j]
            /\ reader.schema[j].dtype =
                  to_data_type(TypeOfRank(MaxOf(ColumnRanks(j) \cup {0})))
            /\ reader.schema[j].nullable <=>
                  \E k \in 1..Len(Sampled) : Blank(Sampled[k][j])

\* two sampled rows: column 1 is Int and nullable through a blank in the
\* second row, column 2 is String and nullable through an empty first value
SchemaFromSamplesWitness ==
    /\ reader.ok /\ reader.kind = "csv" /\ reader.total_rows = 2
    /\ reader.schema[1].dtype = "Int" /\ reader.schema[1].nullable
    /\ reader.schema[2].dtype = "String" /\ reader.schema[2].nullable
    /\ Blank(payload.records[2][1]) /\ ~Blank(payload.records[2][2])

\* C9: schema discovery inspects min(N, number of data rows) rows, for every
\* sample budget N >= 0, N = 0 included; total_rows reports that number.
SampleBudget ==
    reader.ok /\ reader.kind = "csv" =>
        reader.total_rows = Smaller(budget, Len(payload.records))

\* the items a complete iteration over the payload returns
CsvItems ==
    [k \in 1..Len(payload.records) |->
        IF Len(payload.records[k]) # Len(payload.header) THEN ErrItem("Csv")
        ELSE OkItem([j \in 1..Len(payload.records[k]) |->
                        parse_str_value(payload.records[k][j])])]
AvroRowItems ==
    [k \in 1..Len(payload.items) |->
        LET value == payload.items[k].value
        IN  IF value.tag # "Record" THEN ErrItem("InvalidFormat")
            ELSE IF \E j \in 1..Len(value.fields) :
                        ~convert_avro_value(value.fields[j].value).ok
                 THEN ErrItem("InvalidFormat")
            ELSE OkItem([j \in 1..Len(value.fields) |->
                    TypedValue(dtype_from_avro(value.fields[j].value),
                               convert_avro_value(value.fields[j].value).value)])]
AllItems == IF payload.kind = "csv" THEN CsvItems ELSE AvroRowItems

EveryIteratorFromStart ==
    \A k \in 1..Len(iters) :
        /\ Len(yielded[k]) <= Len(AllItems)
        /\ yielded[k] = SubSeq(AllItems, 1, Len(yielded[k]))
        /\ iters[k].done => yielded[k] = AllItems

\* C10: iter_rows may be called any number of times, the iterators advanced in
\* any interleaving and abandoned anywhere; each yields the same finite
\* sequence from the first data row, and no iter_rows call or iterator step
\* changes the reader's schema, total_rows, bytes_read or stored data.
IterationRestartable ==
    [][reader.built => reader' = reader /\ payload' = payload]_vars
    /\ []EveryIteratorFromStart

\* two iterators of one reader at different positions, one of them finished,
\* on a payload with more rows than schema discovery sampled
IterationRestartableWitness ==
    /\ Len(iters) = 2
    /\ iters[1].done /\ Len(yielded[1]) = 2
    /\ Len(yielded[2]) = 1 /\ ~iters[2].done
    /\ reader.kind = "csv" /\ reader.total_rows = 1

\* the row-time rules in the order the claim gives them
RowTimeType(s) ==
    IF s = <<>> THEN "Null"
    ELSE IF ParseI64Ok(s) THEN "Int"
    ELSE IF ParseF64Ok(s) THEN "Real"
    ELSE IF s = <<"t","r","u","e">> \/ s = <<"f","a","l","s","e">> THEN "Numeric"
    ELSE "Text"

\* C11: during text-reader row iteration each field is typed from its own
\* text only, by the first rule that matches: empty -> Null, 64-bit integer
\* -> Integer, float -> Float, exactly "true" or "false" -> Boolean, else
\* Text; the type schema discovery inferred for the column plays no part.
FieldTypedFromOwnText ==
    \A k \in 1..Len(yielded) :
        iters[k].kind = "csv" =>
            \A p \in 1..Len(yielded[k]) :
                yielded[k][p].ok =>
                    \A j \in 1..Len(yielded[k][p].row) :
                        yielded[k][p].row[j].dtype = RowTimeType(payload.records[p][j])

\* schema discovery sampled both rows and inferred Int for the column (it
\* trims), and the second row's field " 1" was yielded as Text
FieldTypedFromOwnTextWitness ==
    /\ reader.ok /\ reader.kind = "csv" /\ reader.total_rows = 2
    /\ reader.schema[1].dtype = "Int"
    /\ Len(yielded) = 1 /\ Len(yielded[1]) = 2
    /\ payload.records[2][1] = <<" ", "1">>
    /\ yielded[1][2].ok /\ yielded[1][2].row[1].dtype = "Text"

\* C12: for every field of every row the text reader yields, rendering the
\* value in its display form and parsing that text again with the row-time
\* parser gives a value of the same type classification as the original.
DisplayRoundTrip ==
    \A k \in 1..Len(yielded) :
        iters[k].kind = "csv" =>
            \A p \in 1..Len(yielded[k]) :
                yielded[k][p].ok =>
                    \A j \in 1..Len(yielded[k][p].row) :
                        parse_str_value(display(yielded[k][p].row[j].value)).dtype
                            = yielded[k][p].row[j].dtype

\* the schema the first decoded record alone determines
FirstRecordSchema ==
    LET first == payload.items[1].value
        fields == IF first.tag = "Record" THEN first.fields ELSE <<>>
    IN  [j \in 1..Len(fields) |->
            [name |-> fields[j].name,
             dtype |-> dtype_from_avro(fields[j].value),
             nullable |-> fields[j].value.tag = "Null"]]

IdNameFirst ==
    /\ payload.items # <<>>
    /\ payload.items[1].value =
          AvroRecord(<<AvroField("id", AvroScalar("Int", <<"1">>)),
                       AvroField("name", AvroScalar("String", <<"a">>))>>)

\* C13: the binary reader's schema (field names, their order, each field's
\* type and nullable flag) is a function of the first decoded record only,
\* whatever the later records contain; a first record {id: 32-bit integer,
\* name: string} gives the schema {id: Integer, name: Text}.
SchemaFromFirstRecord ==
    reader.ok /\ reader.kind = "avro" =>
        /\ payload.items[1].value.tag = "Record"
        /\ reader.schema = FirstRecordSchema
        /\ IdNameFirst =>
              reader.schema = << SchemaField("id", "Int", FALSE),
                                 SchemaField("name", "Text", FALSE) >>

\* a reader built from the {id, name} record followed by a record whose name
\* is a null inside a union
SchemaFromFirstRecordWitness ==
    /\ reader.ok /\ reader.kind = "avro" /\ IdNameFirst
    /\ Len(payload.items) = 2
    /\ payload.items[2].value.tag = "Record"
    /\ payload.items[2].value.fields[2].value = AvroUnion(AvroNull)
    /\ reader.schema[2].dtype = "Text"

\* the payloads construction must refuse
AvroUnusable ==
    \/ ~payload.framed
    \/ \E i \in 1..Len(payload.items) : ~payload.items[i].ok
    \/ payload.items = <<>>
    \/ payload.items[1].value.tag # "Record"

\* C14: binary-reader construction returns an InvalidFormat error, and no
\* reader, whenever the payload cannot be framed, a record fails to decode,
\* the payload holds zero records, or the first decoded value is not a
\* record; when it succeeds total_rows is the number of records decoded,
\* which is at least 1.
AvroConstruction ==
    reader.built /\ payload.kind = "avro" =>
        /\ AvroUnusable => ~reader.ok /\ reader.err = "InvalidFormat"
                            /\ reader.records = <<>> /\ reader.schema = <<>>
        /\ reader.ok => /\ reader.total_rows = Len(payload.items)
                         /\ reader.total_rows >= 1
                         /\ Len(reader.records) = reader.total_rows

\* construction refused because the second value failed to decode after a
\* first record that decoded
AvroConstructionWitness ==
    /\ reader.built /\ payload.kind = "avro" /\ ~reader.ok
    /\ reader.err = "InvalidFormat"
    /\ payload.framed /\ Len(payload.items) = 2
    /\ payload.items[1].ok /\ payload.items[1].value.tag = "Record"
    /\ ~payload.items[2].ok

\* an array, map or nested record, directly or inside unions
RECURSIVE IsNested(_)
IsNested(value) ==
    IF value.tag = "Union" THEN IsNested(value.inner) ELSE value.tag \in ComplexTags

RECURSIVE Unwrapped(_)
Unwrapped(value) == IF value.tag = "Union" THEN Unwrapped(value.inner) ELSE value

HasNestedField(value) ==
    \E j \in 1..Len(value.fields) : IsNested(value.fields[j].value)

\* C15: during binary-reader row iteration a record with an array, map or
\* nested-record field (directly or inside a union) makes exactly that row
\* an InvalidFormat error; the rows yielded before it stay the Ok rows they
\* were, and no field of an Ok row is a text rendering of a nested value.
NestedFieldFailsRow ==
    /\ [][\A k \in 1..Len(yielded) :
            SubSeq(yielded'[k], 1, Len(yielded[k])) = yielded[k]]_vars
    /\ [](\A k \in 1..Len(yielded) :
            iters[k].kind = "avro" =>
                \A p \in 1..Len(yielded[k]) :
                    LET value == reader.records[p]
                        item == yielded[k][p]
                    IN  IF value.tag = "Record" /\ ~HasNestedField(value)
                        THEN /\ item.ok
                             /\ \A j \in 1..Len(item.row) :
                                   item.row[j].value.tag = "Text" =>
                                     /\ Unwrapped(value.fields[j].value).tag \in TextTags
                                     /\ item.row[j].value.text =
                                           Unwrapped(value.fields[j].value).text
                        ELSE ~item.ok /\ item.err = "InvalidFormat")

\* an iterator that has yielded an Ok row, then the error row of the record
\* whose name is an array inside a union
NestedFieldFailsRowWitness ==
    /\ reader.ok /\ reader.kind = "avro"
    /\ \E k \in 1..Len(yielded) :
        /\ Len(yielded[k]) = 2
        /\ yielded[k][1].ok
        /\ ~yielded[k][2].ok /\ yielded[k][2].err = "InvalidFormat"
        /\ reader.records[2].tag = "Record"
        /\ reader.records[2].fields[2].value = AvroUnion(AvroArray)

----------------------------------------------------------------------------
(* Claims about the row-vector table *)

\* the number a numeric text stands for is 7
IsSeven(text) == ParseF64Ok(text) /\ FormatF64(text) = <<"7">>

\* both texts parse as numbers
BothNumeric(cell, value) == ParseF64Ok(cell) /\ ParseF64Ok(value)

\* the predicates filter applied in its last call, each with the runtime
\* value it was compared with
AppliedPredicates ==
    LET col_ops == vector_col_ops(Split(vcall.idx_str, ","))
    IN  [i \in 1..Len(col_ops) |->
            [col_idx |-> col_ops[i].col_idx, value |-> vcall.args[i]]]

\* an applied "=" predicate, compared as the claim says
EqualAsClaimed(cell, value) ==
    IF BothNumeric(cell, value)
    THEN F64Eq(FormatF64(cell), FormatF64(value))
    ELSE cell = value

\* C16: in the row-vector cursor each applied predicate decides row by row how
\* to compare: numerically when both the trimmed cell text and the runtime
\* filter text parse as numbers, lexicographically on the text otherwise; so
\* "=" on column 0 with runtime value "7" keeps every row whose column-0 cell
\* is numerically 7 (such as "7.0" or " 7 ") and no other row.
NumericOrTextCompare ==
    vcall.filtered =>
        /\ vcursor.filtered_rows =
              SelectSeq(vtab.rows,
                        LAMBDA row : \A i \in 1..Len(AppliedPredicates) :
                            EqualAsClaimed(Trim(row[AppliedPredicates[i].col_idx + 1]),
                                           AppliedPredicates[i].value))
        /\ (vcall.constraints = <<Con(0, "EQ", TRUE)>> /\ vcall.args = << <<"7">> >>) =>
              vcursor.filtered_rows =
                  SelectSeq(vtab.rows, LAMBDA row : IsSeven(Trim(row[1])))

\* "=" on column 0 with value "7" over the payload rows "7.0" and "70": the
\* view holds the first row only
NumericOrTextCompareWitness ==
    /\ vcall.filtered
    /\ vcall.constraints = <<Con(0, "EQ", TRUE)>> /\ vcall.args = << <<"7">> >>
    /\ Len(vtab.rows) = 2
    /\ vtab.rows[1][1] = <<"7", ".", "0">> /\ vtab.rows[2][1] = <<"7", "0">>
    /\ vcursor.filtered_rows = << vtab.rows[1] >>

\* the entries of the token of the last filter call; entry k belongs to the
\* constraint best_index gave slot k
TokenEntries == Split(vcall.idx_str, ",")

\* filter decodes the entry into a predicate
Decoded(part) == vector_col_ops(<<part>>) # <<>>

\* the rows that satisfy every decoded predicate, the predicate of slot k
\* evaluated against argument k
SlotBoundRows ==
    SelectSeq(vtab.rows,
              LAMBDA row :
                  \A k \in 1..Len(TokenEntries) :
                      Decoded(TokenEntries[k]) =>
                          LET p == vector_col_ops(<<TokenEntries[k]>>)[1]
                          IN  vector_comparison(p.op, Trim(row[p.col_idx + 1]),
                                                vcall.args[k]))

\* C22: in the row-vector cursor every predicate filter applies for the
\* constraint holding slot k is evaluated against argument k, also when an
\* earlier entry of the token is skipped while decoding.
PredicatesBoundBySlot ==
    (vcall.filtered /\ vcall.args # <<>>) => vcursor.filtered_rows = SlotBoundRows

----------------------------------------------------------------------------
(* Claims about arguments and names *)

HasEq(arg) == FirstIndex(arg, {"="}) # 0
KeyOf(arg) == ToUpper(Trim(SubSeq(arg, 1, FirstIndex(arg, {"="}) - 1)))
ValueOf(arg) ==
    TrimMatches(Trim(SubSeq(arg, FirstIndex(arg, {"="}) + 1, Len(arg))), QuoteChars)
CleanOf(arg) == TrimMatches(Trim(arg), QuoteChars)
NamedIndexes == { i \in 1..Len(vt_args) : HasEq(vt_args[i]) }
LastWithKey(key) ==
    CHOOSE i \in NamedIndexes :
        /\ KeyOf(vt_args[i]) = key
        /\ \A j \in NamedIndexes : KeyOf(vt_args[j]) = key => j <= i
PositionalArgs == SelectSeq(vt_args, LAMBDA a : ~HasEq(a))

\* the named map after every argument containing '=' has been put into it in
\* input order under its key: of several arguments with one key the last
\* one's value is the one the map holds
NamedAsInserted ==
    /\ \A i \in NamedIndexes :
          /\ KeyOf(vt_args[i]) \in DOMAIN parsed_args.named
          /\ parsed_args.named[KeyOf(vt_args[i])] =
                ValueOf(vt_args[LastWithKey(KeyOf(vt_args[i]))])
    /\ DOMAIN parsed_args.named = { KeyOf(vt_args[i]) : i \in NamedIndexes }

\* C20 as stated: every argument containing '=' is put into the named map
\* under the upper-cased, trimmed text before the first '=' with the trimmed,
\* quote-stripped text after it as value; every other argument, trimmed and
\* quote-stripped, is in the positional list in input order, those empty
\* after trimming dropped; no argument is in both; an empty input gives an
\* empty map and an empty list.
ParseArgsAsStated ==
    parsed_args.done =>
        /\ NamedAsInserted
        /\ LET kept == SelectSeq(PositionalArgs, LAMBDA a : Trim(a) # <<>>)
           IN  parsed_args.positional = [i \in 1..Len(kept) |-> CleanOf(kept[i])]
        /\ vt_args = <<>> =>
              DOMAIN parsed_args.named = {} /\ parsed_args.positional = <<>>

\* C20 as amended: as stated, except that a positional argument is dropped
\* when it is empty after trimming and quote-stripping, so an argument made
\* of quote characters only is dropped too.
ParseArgsDropsEmptied ==
    parsed_args.done =>
        /\ NamedAsInserted
        /\ LET kept == SelectSeq(PositionalArgs, LAMBDA a : CleanOf(a) # <<>>)
           IN  parsed_args.positional = [i \in 1..Len(kept) |-> CleanOf(kept[i])]
        /\ vt_args = <<>> =>
              DOMAIN parsed_args.named = {} /\ parsed_args.positional = <<>>

\* a named argument written "Name = x" and a positional argument of two
\* quote characters: the map holds NAME and the list is empty
ParseArgsDropsEmptiedWitness ==
    /\ parsed_args.done
    /\ vt_args = << <<"N", "a", "m", "e", " ", "=", " ", "x">>, <<"'", "'">> >>
    /\ parsed_args.named = [k \in { <<"N", "A", "M", "E">> } |-> <<"x">>]
    /\ parsed_args.positional = <<>>

----------------------------------------------------------------------------
(* Claims about table initialisation                                        *)

\* the last call got past the resolution of its arguments
ArgsResolved ==
    gate.res.kind \notin {"Args", "NoUrl", "NoFormat", "Format", "Storage"}

\* the database held a persisted copy when the last call started
FoundCopy == gate.pre.has_metadata

\* the frame the stored header line and all stored data rows give
FrameOfCopy ==
    LET hdrs == IF gate.pre.metadata = <<>> THEN <<>>
                ELSE split_headers_line(gate.pre.metadata[1].headers)
    IN  DataFrame(hdrs, [j \in 1..Len(hdrs) |-> "String"],
                  [k \in 1..Len(gate.pre.rows) |->
                      [j \in 1..Len(hdrs) |->
                          Cell(IF gate.pre.rows[k][j].null THEN <<"N", "U", "L", "L">>
                               ELSE gate.pre.rows[k][j].text)]])

\* C17: initialisation fetches the remote payload exactly when the call is a
\* create and no persisted metadata table exists; every connect and every
\* create that finds a persisted copy fetches nothing and builds the table
\* from the stored header line and all stored data rows.
FetchExactlyWithoutCopy ==
    (gate.called /\ ArgsResolved) =>
        /\ gate.res.fetched <=> (gate.is_created /\ ~FoundCopy)
        /\ (gate.res.built /\ (~gate.is_created \/ FoundCopy)) =>
               gate.res.df = FrameOfCopy

\* C18: a table reconstructed from a persisted copy declares, for every
\* column, the type stored for it in the metadata record at creation time.
StoredTypesDeclared ==
    (gate.called /\ gate.res.ok /\ ~gate.res.fetched) =>
        gate.res.columns_types = gate.pre.metadata[1].column_types

SupportedFormats ==
    { <<<<"C", "S", "V">>, "CSV">>, <<<<"A", "V", "R", "O">>, "AVRO">>,
      <<<<"P", "A", "R", "Q", "U", "E", "T">>, "PARQUET">>,
      <<<<"J", "S", "O", "N">>, "JSON">>, <<<<"J", "S", "O", "N", "L">>, "JSONL">>,
      <<<<"N", "D", "J", "S", "O", "N">>, "JSONL">> }
SupportedStorages ==
    { <<<<"T", "E", "M", "P">>, "TEMP">>, <<<<"D", "I", "S", "K">>, "DISK">> }

\* the name a lookup table has for a text, if any
Known(table, text) == { e \in table : e[1] = text }

\* msg ends with the name
CarriesName(msg, name) ==
    /\ Len(msg) > Len(name)
    /\ SubSeq(msg, Len(msg) - Len(name) + 1, Len(msg)) = name

\* the result is the entry of the table for the text, or an error carrying name
ResolvedIn(table, text, name, res) ==
    IF Known(table, text) # {}
    THEN res.ok /\ \A e \in Known(table, text) : res.value = e[2]
    ELSE ~res.ok /\ CarriesName(res.msg, name)

\* the format and storage names the last call of init resolved, after
\* parse_args
GateFormatName == named_or_positional(parse_args(gate.args), <<"F", "O", "R", "M", "A", "T">>, 1)
GateStorageName == named_or_positional(parse_args(gate.args), <<"S", "T", "O", "R", "A", "G", "E">>, 2)
GateUrl == named_or_positional(parse_args(gate.args), <<"U", "R", "L">>, 0)
GateBadName ==
    /\ Len(gate.args) >= 2 /\ GateUrl.some /\ GateFormatName.some
    /\ \/ Known(SupportedFormats, ToUpper(GateFormatName.value)) = {}
       \/ /\ GateStorageName.some
          /\ Known(SupportedStorages, ToUpper(Trim(GateStorageName.value))) = {}

\* C19: get_format resolves exactly CSV, AVRO, PARQUET, JSON, JSONL and NDJSON
\* in any letter case (NDJSON as JSONL), get_storage exactly TEMP and DISK in
\* any letter case with surrounding whitespace ignored; any other name gives
\* an error whose message carries the name as given, and init then fails
\* without fetching, persisting or returning a table.
NamesResolvedOrRefused ==
    /\ (lookup.done /\ lookup.fn = "get_format") =>
           ResolvedIn(SupportedFormats, ToUpper(lookup.name), lookup.name, lookup.res)
    /\ (lookup.done /\ lookup.fn = "get_storage") =>
           ResolvedIn(SupportedStorages, ToUpper(Trim(lookup.name)), lookup.name,
                      lookup.res)
    /\ (gate.called /\ GateBadName) =>
           /\ ~gate.res.ok /\ ~gate.res.fetched /\ ~gate.res.built
           /\ gate.res.kind \in {"Format", "Storage"}
           /\ CarriesName(gate.res.msg,
                          IF gate.res.kind = "Format" THEN GateFormatName.value
                          ELSE GateStorageName.value)
           /\ db = gate.pre

NamesResolvedOrRefusedWitness ==
    /\ lookup.done /\ lookup.fn = "get_storage" /\ ~lookup.res.ok
    /\ gate.called /\ GateBadName /\ gate.is_created /\ ~FoundCopy
    /\ gate.res.kind = "Storage" /\ gate.res.msg = lookup.res.msg

----------------------------------------------------------------------------
(* Claims about the frame reader for Avro                                   *)

\* the payload decodes into records that all have the same fields
FinishSameFields ==
    /\ payload.framed
    /\ \A i \in 1..Len(payload.items) :
          /\ payload.items[i].ok
          /\ payload.items[i].value.tag = "Record"
          /\ [j \in 1..Len(payload.items[i].value.fields) |->
                 payload.items[i].value.fields[j].name]
             = [j \in 1..Len(payload.items[1].value.fields) |->
                 payload.items[1].value.fields[j].name]

\* the field names of the records, in the order of the records' fields
FinishFieldNames ==
    IF payload.items = <<>> THEN <<>>
    ELSE [j \in 1..Len(payload.items[1].value.fields) |->
             payload.items[1].value.fields[j].name]

\* the cell that holds the value of a field
FieldCell(value) ==
    LET v == Unwrapped(value)
    IN  IF v.tag = "Null" THEN NullCell
        ELSE IF v.tag \in ComplexTags THEN Cell(v)
        ELSE Cell(v.text)

\* C21: for a payload whose records all have the same fields, finish returns
\* a frame with one row per record and one column per field, and the cell in
\* the column named f at row i holds the value of field f of the i-th record.
FinishPlacesFieldValues ==
    (avro_out.done /\ FinishSameFields) =>
        /\ avro_out.outcome = "ok"
        /\ height(avro_out.df) = Len(payload.items)
        /\ Len(avro_out.df.names) = Len(FinishFieldNames)
        /\ \A i \in 1..Len(payload.items), j \in 1..Len(FinishFieldNames) :
              \E c \in 1..Len(avro_out.df.names) :
                  /\ avro_out.df.names[c] = FinishFieldNames[j]
                  /\ i <= height(avro_out.df)
                  /\ avro_out.df.rows[i][c] = FieldCell(payload.items[i].value.fields[j].value)

\* a decoded record of the payload has an array, map or nested-record field
FinishNestedField ==
    \E i \in 1..Len(payload.items) :
        /\ payload.items[i].ok /\ payload.items[i].value.tag = "Record"
        /\ HasNestedField(payload.items[i].value)

\* C24: finish reports a record with an array, map or nested-record field as
\* an error, never as a text rendering, and returns an error (it does not
\* abort) for a payload that cannot be framed or a record that cannot be
\* decoded.
FinishReportsErrors ==
    avro_out.done =>
        /\ avro_out.outcome # "panic"
        /\ FinishNestedField => avro_out.outcome = "err"

\* C25: the columns of the frame finish returns are in the field order of the
\* records, on every run over the same payload.
FinishKeepsFieldOrder ==
    (avro_out.done /\ FinishSameFields /\ avro_out.outcome = "ok") =>
        avro_out.df.names = FinishFieldNames

----------------------------------------------------------------------------
(* Claims about the persistent store                                        *)

\* C23: initialisation writes to the persistent store only in a create that
\* found no persisted copy and therefore fetched; a create that finds a
\* persisted copy, and every connect to one, succeeds with the reconstructed
\* table and leaves the store unchanged.
StoreWrittenOnlyByFirstCreate ==
    (gate.called /\ ArgsResolved) =>
        /\ db # gate.pre => (gate.is_created /\ ~FoundCopy /\ gate.res.fetched)
        /\ FoundCopy =>
              /\ gate.res.ok
              /\ gate.res.df = FrameOfCopy
              /\ db = gate.pre

\* C28: in every state of the persistent store, also one left by an
\* initialisation that failed part-way, the metadata table exists only if the
\* data table exists with every row of the fetched table and the metadata
\* table holds its one record.
MetadataMeansCompleteCopy ==
    db.has_metadata =>
        /\ db.has_data
        /\ Len(db.metadata) = 1
        /\ (gate.called /\ db # gate.pre) => Len(db.rows) = height(gate.resp.df)

\* the store holds a copy that a create with disk storage persisted
\* successfully
PersistedCopy ==
    gate.pre.has_metadata /\ gate.pre.has_data /\ Len(gate.pre.metadata) = 1

\* C29: a connect to a table that a create with disk storage persisted
\* successfully succeeds, with the column names of that table in the same
\* order and the same number of rows, also when the table has no rows.
ConnectRestoresShape ==
    (gate.called /\ ArgsResolved /\ ~gate.is_created /\ PersistedCopy) =>
        /\ gate.res.ok
        /\ gate.res.headers = [j \in 1..Len(gate.pre.columns) |-> gate.pre.columns[j].name]
        /\ height(gate.res.df) = Len(gate.pre.rows)

----------------------------------------------------------------------------
(* Claims about batched inserts                                              *)

\* C26: for a frame of n rows and a batch size b >= 1,
\* generate_inserts_from_dataframe returns ceil(n/b) statements, each with
\* between 1 and b row tuples, and the row tuples of all statements in order
\* are rows 0..n-1 of the frame, each once; zero rows give no statement.
InsertsCoverRowsInBatches ==
    inserts.done =>
        LET n == height(inserts.df)
            b == inserts.batch_size
        IN  /\ Len(inserts.statements) * b >= n
            /\ (Len(inserts.statements) - 1) * b < n \/ Len(inserts.statements) = 0
            /\ n = 0 => inserts.statements = <<>>
            /\ \A s \in 1..Len(inserts.statements) :
                  Len(inserts.statements[s]) \in 1..b
            /\ inserted_rows(inserts.statements)
               = [k \in 1..n |->
                     <<IF inserts.df.rows[k][1].null THEN StoredNull
                       ELSE Stored(FormatInt(inserts.df.rows[k][1].v))>>]

\* five rows in batches of two: three statements, the last with one row
InsertsCoverRowsInBatchesWitness ==
    /\ inserts.done /\ height(inserts.df) = 5 /\ inserts.batch_size = 2
    /\ Len(inserts.statements) = 3 /\ Len(inserts.statements[3]) = 1

----------------------------------------------------------------------------
(* Claims about the stored header line                                       *)

\* C27 as stated: for every list of column names, splitting the stored
\* header line gives the same names in the same order and number.
HeaderRoundTrip ==
    header_trip.done => header_trip.split = header_trip.names

\* no name of the list holds a double quote
NoQuoteInNames ==
    \A j \in 1..Len(header_trip.names) :
        \A i \in 1..Len(header_trip.names[j]) : header_trip.names[j][i] # "\""

\* C27: for every list of column names none of which contains a double
\* quote, splitting the stored header line gives the same names in the same
\* order and number, including names with commas, names with spaces and
\* empty names.
HeaderRoundTripUnquoted ==
    (header_trip.done /\ NoQuoteInNames) => header_trip.split = header_trip.names

\* a name with a comma followed by an empty name, split back into the two
HeaderRoundTripUnquotedWitness ==
    /\ header_trip.done
    /\ header_trip.names = << <<"a", ",", "b">>, <<>> >>
    /\ header_trip.split = header_trip.names

----------------------------------------------------------------------------
(* Claims about prepared statements                                          *)

\* C30: every Statement that build returns has its handle finalized exactly
\* once on every path (after execute, after fetch, after finalize, when
\* dropped): never twice, and never left unfinalized once the value is gone.
FinalizedExactlyOnce ==
    \A i \in 1..Len(stmts) :
        /\ stmts[i].raw_finalized <= 1
        /\ stmts[i].owned => stmts[i].raw_finalized = 0
        /\ ~stmts[i].owned => stmts[i].raw_finalized = 1

\* three statements, gone by a failed execute, a fetch and an explicit
\* finalize after a successful execute
FinalizedExactlyOnceWitness ==
    /\ Len(stmts) = 3
    /\ stmts[1].last = "execute_err" /\ stmts[2].last = "fetch_ok"
    /\ stmts[3].last = "finalize_ok"
    /\ \A i \in 1..3 : ~stmts[i].owned /\ stmts[i].raw_finalized = 1

============================================================================
